---- MODULE Spec2Model ----
(***************************************************************************)
(* Asset pipeline of mcgoldng: the custom LZ decompressor and its          *)
(* decompress() wrapper (assets/lz_decompress.cpp), the byte-range reads   *)
(* of the archive readers (assets/fst_reader.cpp, assets/pak_reader.cpp)   *)
(* and the shape table loader and RLE decoder (assets/shape_reader.cpp).   *)
(* Each component has its own specification over the shared variables; a   *)
(* component that a specification does not exercise keeps its idle state.  *)
(***************************************************************************)
EXTENDS Integers, Naturals, Sequences, FiniteSets, TLC

(***************************************************************************)
(* Machine arithmetic                                                      *)
(***************************************************************************)
\* uint32_t values that can wrap are kept as two 16-bit halves
Half == 65536

U32Of(n) == [hi |-> n \div Half, lo |-> n % Half]

\* a + n and a - n in uint32_t arithmetic, for 0 <= n < 65536
U32Add(a, n) ==
    IF a.lo + n < Half THEN [hi |-> a.hi, lo |-> a.lo + n]
    ELSE [hi |-> (a.hi + 1) % Half, lo |-> a.lo + n - Half]

U32Sub(a, n) ==
    IF a.lo >= n THEN [hi |-> a.hi, lo |-> a.lo - n]
    ELSE [hi |-> (a.hi + Half - 1) % Half, lo |-> a.lo + Half - n]

\* a < n, for 0 <= n < 65536
U32Less(a, n) == a.hi = 0 /\ a.lo < n

RECURSIVE Pow2(_)
Pow2(n) == IF n = 0 THEN 1 ELSE 2 * Pow2(n - 1)

\* a | b on unsigned values
RECURSIVE BitOr(_, _)
BitOr(a, b) ==
    IF a = 0 THEN b
    ELSE IF b = 0 THEN a
    ELSE (IF (a % 2 = 1) \/ (b % 2 = 1) THEN 1 ELSE 0) + 2 * BitOr(a \div 2, b \div 2)

\* a & b on unsigned values
RECURSIVE BitAnd(_, _)
BitAnd(a, b) ==
    IF a = 0 \/ b = 0 THEN 0
    ELSE (IF (a % 2 = 1) /\ (b % 2 = 1) THEN 1 ELSE 0) + 2 * BitAnd(a \div 2, b \div 2)

\* a << n; the operands of the decoder (a byte shifted by less than 12 bits,
\* a mask or an index of at most 12 bits) stay far below 32 bits
Shl(a, n) == a * Pow2(n)

\* a >> n on an unsigned value
Shr(a, n) == a \div Pow2(n)

(***************************************************************************)
(* lz_decompress.cpp: constants                                            *)
(***************************************************************************)
HASH_CLEAR == 256
HASH_EOF == 257
HASH_FREE == 258
BASE_BITS == 9
\* the ceiling of a width of 8 bits
MaxBitIndexOfEight == HASH_CLEAR
MAX_BIT_INDEX == 512
HASH_TABLE_SIZE == 16384
\* number of HashEntry cells of hashTable[HASH_TABLE_SIZE / 3]
HashCells == HASH_TABLE_SIZE \div 3
\* sizeof(charStack)
CharStackSize == 4096
\* ceiling of the code width (bitCount < 12)
MaxBits == 12

(***************************************************************************)
(* Bounds of the model                                                     *)
(***************************************************************************)
\* longest raw source stream handed to the decoder
MaxSrcLen == 4
\* largest destination capacity tried with raw source streams
MaxDestLen == 4
\* longest plain text, over PlainBytes, that is compressed and decoded back
MaxPlainLen == 7
\* how many bits past the end of the source the model follows the decoder
MaxOverrun == 30
\* most packets in the seek table of a generated archive
MaxPackets == 2
\* bytes of packet or file data that follow the directory of a generated archive
MaxData == 8

\* longest RLE stream of a generated shape
MaxRleLen == 4
\* longest prefix of a table header handed to load
MaxLoadLen == 23
\* largest index handed to decodeShape
MaxShapeIndex == 1
\* most repetitions of a skip packet in a generated stream
MaxSkipPackets == 8421505

\* most entries of a generated flat archive
MaxFstEntries == 2

\* most packets of a generated archive of shape tables
MaxTablePackets == 2

\* most packets of a generated archive of archives
MaxOuterPackets == 2

\* most packets of a generated archive that readPacket is tried on
MaxPakEntries == 2

\* lengths of the sources the code width is grown on
LongSrcLen == 8160
ShortSrcLen == 300

\* byte values of raw source streams: they form the codes 0, 1, 2, 3, 128,
\* 256 (clear), 257 (end of data), 258 and above
SrcBytes == {0, 1, 2, 3}
\* byte values of the plain texts of the round trip
PlainBytes == {97, 98}
\* byte values inflate() writes
ZlibBytes == {90}

VARIABLES
    \* the call under test and its arguments
    call,           \* "lzDecompress" or "decompress"
    src,            \* source bytes (srcLen == Len(src))
    destLen,        \* destination capacity / uncompressedSize
    useZlib,        \* decompress(): the useZlib argument
    packed,         \* TRUE when src is the compression of plain
    plain,          \* the text src is compressed from (<<>> for raw streams)
    enc,            \* the compressor's state while it produces src
    \* lzDecompress locals
    dest,           \* destination cells written so far: index -> byte
    hashTable,      \* cells written so far: index -> [chain, suffix]; others are 0
    codeMask, maxIndex, freeIndex, oldChain, oldSuffix, bitCount,
    srcPos, bitBuffer, bitsInBuffer, destPos,
    charStack,      \* cells written so far: index -> byte
    stackPos,
    code, newChain,
    lzRet,          \* return value of lzDecompress
    \* decompress() locals
    actualSize,
    lzOut,          \* history: the bytes lzDecompress returned in the buffer
    zlibOut,        \* history: what the Deflate attempt wrote and returned
    result,         \* the returned vector
    \* archive handle (FstReader or PakReader) and the file behind it
    reader,         \* "fst" or "pak"
    openable,       \* whether the path given to open names a file that opens
    fileBytes,      \* content of the archive file
    m_file,         \* std::ifstream: [open, fail, eof, pos]
    m_entries,
    m_fileSize,
    openResult,     \* return value of open()
    reqOffset, reqSize,   \* arguments of the last readRawData
    readResult,     \* its returned vector
    \* calls on an open archive
    packetIndex,    \* the index argument of the last readPacket
    packetResult,   \* its returned vector
    \* ShapeReader and the buffer its caller holds
    tableBuf,       \* the caller's buffer
    m_data,         \* the buffer m_data points to
    m_size, m_loaded, m_headerOffset, m_version, m_shapeCount, m_offsets,
    loadSize,       \* the size argument of the last load
    loadResult,     \* its return value
    loadReads,      \* history: the indices of data[] it read
    \* decodeShape and decodeRLE
    shapeIndex,     \* the index argument of the last decodeShape
    header,         \* the ShapeHeader getShapeHeader filled
    shapeData,      \* the ShapeData it builds; pixels: written cells -> byte
    rleOffset,      \* where src points to in the buffer
    srcSize,
    \* decodeRLE's srcPos, x, y, marker, count, value and loop counter i
    rleSrcPos, rleX, rleY, rleMarker, rleCount, rleValue, rleI,
    rleWrites,      \* history: the cells <<x, y>> decodeRLE wrote
    \* NestedPakReader and ShapePackReader, which load from a PakReader
    loaderPc,       \* where open / loadFromPak stands
    loaderI,        \* its loop counter i
    loaderResult,   \* what it returned
    m_mechSprites,  \* NestedPakReader: one MechSpriteSet per outer packet
    loadedCount,
    mechData,       \* MechSpriteSet::load: the data argument
    mechI,          \* its loop counter i
    successCount,
    m_packetData,   \* ShapePackReader: the packets its tables point into
    m_tables,       \* ShapePackReader: its ShapeReaders
    \* FstReader::findEntry and readFile
    searchPath,     \* the path argument of the last findEntry
    foundEntry,     \* the entry it returned: its place in m_entries, 0 for null,
                    \* -1 before the first call
    compared,       \* history: the entries it compared characters of
    fileEntry,      \* the entry the last readFile read: its place, 0 for none
    fileResult,     \* what the last readFile returned
    \* extractAll of either reader
    extractPc,      \* where extractAll stands
    extractI,       \* its loop counter i
    extracted,      \* its count
    attempted,      \* history: the entries it read, in order
    written,        \* history: the entries whose file was written
    \* Mission
    missionPc,      \* where update stands: "idle" between calls, or the check
                    \* of checkMissionEnd that comes next
    m_state,        \* MissionState
    m_elapsedTime,
    m_timeLimit,    \* 0 = no limit
    m_objectives,   \* sequence of [type, primary, timeLimit, status]
    m_triggers,     \* sequence of [condition, targetId, delay, fired]
    m_mechs,        \* sequence of [team, destroyed]
    stateChanges,   \* history: the states m_onStateChange was called with
    pc

lzVars == <<call, src, destLen, useZlib, packed, plain, enc, dest, hashTable, codeMask,
            maxIndex, freeIndex, oldChain, oldSuffix, bitCount, srcPos,
            bitBuffer, bitsInBuffer, destPos, charStack, stackPos, code,
            newChain, lzRet, actualSize, lzOut, zlibOut, result>>

streamVars == <<reader, openable, fileBytes, m_file, m_entries, m_fileSize, openResult,
                reqOffset, reqSize, readResult>>

readerVars == <<tableBuf, m_data, m_size, m_loaded, m_headerOffset, m_version,
                m_shapeCount, m_offsets, loadSize, loadResult, loadReads>>

decodeVars == <<shapeIndex, header, shapeData, rleOffset, srcSize, rleSrcPos, rleX, rleY,
                rleMarker, rleCount, rleValue, rleI, rleWrites>>

shapeVars == <<readerVars, decodeVars>>

loaderVars == <<loaderPc, loaderI, loaderResult, m_mechSprites, loadedCount, mechData,
                mechI, successCount, m_packetData, m_tables>>

fstVars == <<searchPath, foundEntry, compared, fileEntry, fileResult>>

extractVars == <<extractPc, extractI, extracted, attempted, written>>

missionVars == <<missionPc, m_state, m_elapsedTime, m_timeLimit, m_objectives, m_triggers,
                 m_mechs, stateChanges>>

archiveVars == <<packetIndex, packetResult, loaderVars, fstVars, extractVars, missionVars>>

\* what the steps of the decompressor leave alone
nonLzVars == <<streamVars, shapeVars, archiveVars>>

\* what the operations of the archive handle leave alone
nonStreamVars == <<lzVars, shapeVars, archiveVars>>

\* what the operations of the shape reader leave alone
nonShapeVars == <<lzVars, streamVars, archiveVars>>

vars == <<lzVars, streamVars, shapeVars, archiveVars, pc>>

srcLen == Len(src)

(***************************************************************************)
(* Sequences of length 0..n over a set                                     *)
(***************************************************************************)
SeqsUpTo(S, n) == UNION {[1..k -> S] : k \in 0..n}

(***************************************************************************)
(* lzDecompress: the readCode lambda                                       *)
(***************************************************************************)
\* while (bitsInBuffer < bitCount && srcPos < srcLen) load one byte
RECURSIVE FillBits(_, _, _, _, _)
FillBits(s, pos, buf, nbits, width) ==
    IF U32Less(nbits, width) /\ pos < Len(s)
    THEN FillBits(s, pos + 1, BitOr(buf, Shl(s[pos + 1], nbits.lo)),
                  U32Add(nbits, 8), width)
    ELSE [srcPos |-> pos, bitBuffer |-> buf, bitsInBuffer |-> nbits]

ReadCode(s, pos, buf, nbits, width, mask) ==
    LET f == FillBits(s, pos, buf, nbits, width) IN
    [code         |-> BitAnd(f.bitBuffer, mask),
     srcPos       |-> f.srcPos,
     bitBuffer    |-> Shr(f.bitBuffer, width),
     bitsInBuffer |-> U32Sub(f.bitsInBuffer, width)]

\* bits the reads have taken beyond the end of the source (bitsInBuffer wrapped)
Overrun(nbits) ==
    IF nbits.hi = Half - 1 THEN Half - nbits.lo
    ELSE IF nbits.hi >= Half \div 2 THEN Half
    ELSE 0

(***************************************************************************)
(* lzDecompress: writes to dest, hashTable and charStack                   *)
(***************************************************************************)
Store(f, i, v) == [j \in (DOMAIN f) \cup {i} |-> IF j = i THEN v ELSE f[j]]

\* variant: the write is not checked against the capacity
PutDestUnchecked(d, pos, cap, b) == [dest |-> Store(d, pos, b), destPos |-> pos + 1]

\* if (destPos < destLen) dest[destPos++] = b;
PutDest(d, pos, cap, b) ==
    IF pos < cap THEN [dest |-> Store(d, pos, b), destPos |-> pos + 1]
    ELSE [dest |-> d, destPos |-> pos]

\* a table that is not zeroed: a cell never written holds what the stack held
HashAtUnset(t, i) == IF i \in DOMAIN t THEN t[i] ELSE [chain |-> 65535, suffix |-> 255]

\* hashTable[i]; the table is zeroed by memset before the first read
HashAt(t, i) == IF i \in DOMAIN t THEN t[i] ELSE [chain |-> 0, suffix |-> 0]

\* variant: the stacked characters leave in the order they were pushed
RECURSIVE DrainStackInPushOrder(_, _, _, _, _)
DrainStackInPushOrder(d, pos, cap, stack, sp) ==
    IF sp > 0
    THEN LET w == IF pos < cap THEN Store(d, pos, stack[0]) ELSE d
             rest == [j \in 0..(sp - 2) |-> stack[j + 1]] IN
         DrainStackInPushOrder(w, IF pos < cap THEN pos + 1 ELSE pos, cap, rest, sp - 1)
    ELSE [dest |-> d, destPos |-> pos]

\* while (stackPos > 0) output charStack[--stackPos], or only pop it
RECURSIVE DrainStack(_, _, _, _, _)
DrainStack(d, pos, cap, stack, sp) ==
    IF sp > 0
    THEN IF pos < cap
         THEN DrainStack(Store(d, pos, stack[sp - 1]), pos + 1, cap, stack, sp - 1)
         ELSE DrainStack(d, pos, cap, stack, sp - 1)
    ELSE [dest |-> d, destPos |-> pos]

\* the readFirstCode lambda, reading with the given width and mask
ReadFirstCode(s, pos, buf, nbits, width, mask, d, dpos, cap, oc, os) ==
    IF pos > Len(s) - 3
    THEN [ok |-> FALSE, srcPos |-> pos, bitBuffer |-> buf, bitsInBuffer |-> nbits,
          dest |-> d, destPos |-> dpos, oldChain |-> oc, oldSuffix |-> os]
    ELSE LET r == ReadCode(s, pos, buf, nbits, width, mask) IN
         IF r.code = HASH_EOF
         THEN [ok |-> FALSE, srcPos |-> r.srcPos, bitBuffer |-> r.bitBuffer,
               bitsInBuffer |-> r.bitsInBuffer,
               dest |-> d, destPos |-> dpos, oldChain |-> oc, oldSuffix |-> os]
         ELSE LET w == PutDest(d, dpos, cap, r.code % 256) IN
              [ok |-> TRUE, srcPos |-> r.srcPos, bitBuffer |-> r.bitBuffer,
               bitsInBuffer |-> r.bitsInBuffer,
               dest |-> w.dest, destPos |-> w.destPos,
               oldChain |-> r.code, oldSuffix |-> r.code % 256]

\* where control goes when lzDecompress returns
AfterLz == IF call = "lzDecompress" THEN "done" ELSE "fallback"

\* the buffer as the caller sees it: cells never written hold 0
BufferPrefix(d, n) == [i \in 1..n |-> IF (i - 1) \in DOMAIN d THEN d[i - 1] ELSE 0]

(***************************************************************************)
(* lzDecompress: the steps                                                 *)
(***************************************************************************)
\* entry check and initialisation of the locals
LzEnter ==
    /\ pc = "lzEnter"
    /\ IF srcLen < 3 \/ destLen = 0
       THEN /\ lzRet' = 0
            /\ lzOut' = BufferPrefix(dest, 0)
            /\ pc' = AfterLz
            /\ UNCHANGED <<hashTable, codeMask, maxIndex, freeIndex, oldChain,
                           oldSuffix, bitCount, srcPos, bitBuffer, bitsInBuffer,
                           destPos, charStack, stackPos>>
       ELSE /\ hashTable' = <<>>
            /\ codeMask' = MAX_BIT_INDEX - 1
            /\ maxIndex' = MAX_BIT_INDEX
            /\ freeIndex' = HASH_FREE
            /\ oldChain' = 0
            /\ oldSuffix' = 0
            /\ bitCount' = BASE_BITS
            /\ srcPos' = 0
            /\ bitBuffer' = 0
            /\ bitsInBuffer' = U32Of(0)
            /\ destPos' = 0
            /\ charStack' = <<>>
            /\ stackPos' = 0
            /\ pc' = "lzFirst"
            /\ UNCHANGED <<lzRet, lzOut>>
    /\ UNCHANGED <<enc, call, src, destLen, useZlib, packed, plain, dest, code,
                   newChain, actualSize, zlibOut, result>>
    /\ UNCHANGED nonLzVars

\* if (!readFirstCode()) return destPos;
LzFirst ==
    /\ pc = "lzFirst"
    /\ LET f == ReadFirstCode(src, srcPos, bitBuffer, bitsInBuffer, bitCount,
                              codeMask, dest, destPos, destLen, oldChain, oldSuffix) IN
       /\ srcPos' = f.srcPos
       /\ bitBuffer' = f.bitBuffer
       /\ bitsInBuffer' = f.bitsInBuffer
       /\ dest' = f.dest
       /\ destPos' = f.destPos
       /\ oldChain' = f.oldChain
       /\ oldSuffix' = f.oldSuffix
       /\ IF f.ok
          THEN /\ pc' = "lzLoop"
               /\ UNCHANGED <<lzRet, lzOut>>
          ELSE /\ lzRet' = f.destPos
               /\ lzOut' = BufferPrefix(f.dest, f.destPos)
               /\ pc' = AfterLz
    /\ UNCHANGED <<enc, call, src, destLen, useZlib, packed, plain, hashTable, codeMask,
                   maxIndex, freeIndex, bitCount, charStack, stackPos, code,
                   newChain, actualSize, zlibOut, result>>
    /\ UNCHANGED nonLzVars

\* head of the main loop: read a code, handle HASH_EOF and HASH_CLEAR, and
\* prepare the chain walk (use of a code that is not in the table yet)
LzLoop ==
    /\ pc = "lzLoop"
    /\ Overrun(bitsInBuffer) <= MaxOverrun
    /\ IF ~(srcPos <= srcLen)
       THEN /\ lzRet' = destPos
            /\ lzOut' = BufferPrefix(dest, destPos)
            /\ pc' = AfterLz
            /\ UNCHANGED <<dest, codeMask, maxIndex, freeIndex, oldChain, oldSuffix,
                           bitCount, srcPos, bitBuffer, bitsInBuffer, destPos,
                           charStack, stackPos, code, newChain>>
       ELSE LET r == ReadCode(src, srcPos, bitBuffer, bitsInBuffer, bitCount, codeMask) IN
            IF r.code = HASH_EOF
            THEN /\ srcPos' = r.srcPos
                 /\ bitBuffer' = r.bitBuffer
                 /\ bitsInBuffer' = r.bitsInBuffer
                 /\ code' = r.code
                 /\ lzRet' = destPos
                 /\ lzOut' = BufferPrefix(dest, destPos)
                 /\ pc' = AfterLz
                 /\ UNCHANGED <<dest, codeMask, maxIndex, freeIndex, oldChain,
                                oldSuffix, bitCount, destPos, charStack, stackPos,
                                newChain>>
            ELSE IF r.code = HASH_CLEAR
            THEN LET f == ReadFirstCode(src, r.srcPos, r.bitBuffer, r.bitsInBuffer,
                                        BASE_BITS, MAX_BIT_INDEX - 1, dest, destPos,
                                        destLen, oldChain, oldSuffix) IN
                 /\ bitCount' = BASE_BITS
                 /\ codeMask' = MAX_BIT_INDEX - 1
                 /\ maxIndex' = MAX_BIT_INDEX
                 /\ freeIndex' = HASH_FREE
                 /\ srcPos' = f.srcPos
                 /\ bitBuffer' = f.bitBuffer
                 /\ bitsInBuffer' = f.bitsInBuffer
                 /\ dest' = f.dest
                 /\ destPos' = f.destPos
                 /\ oldChain' = f.oldChain
                 /\ oldSuffix' = f.oldSuffix
                 /\ code' = r.code
                 /\ IF f.ok
                    THEN /\ pc' = "lzLoop"
                         /\ UNCHANGED <<lzRet, lzOut>>
                    ELSE /\ lzRet' = f.destPos
                         /\ lzOut' = BufferPrefix(f.dest, f.destPos)
                         /\ pc' = AfterLz
                 /\ UNCHANGED <<charStack, stackPos, newChain>>
            ELSE /\ srcPos' = r.srcPos
                 /\ bitBuffer' = r.bitBuffer
                 /\ bitsInBuffer' = r.bitsInBuffer
                 /\ newChain' = r.code
                 /\ IF r.code >= freeIndex
                    THEN /\ charStack' = Store(charStack, 0, oldSuffix)
                         /\ stackPos' = 1
                         /\ code' = oldChain
                    ELSE /\ stackPos' = 0
                         /\ code' = r.code
                         /\ UNCHANGED charStack
                 /\ pc' = "lzChain"
                 /\ UNCHANGED <<dest, codeMask, maxIndex, freeIndex, oldChain,
                                oldSuffix, bitCount, destPos, lzRet, lzOut>>
    /\ UNCHANGED <<enc, call, src, destLen, useZlib, packed, plain, hashTable,
                   actualSize, zlibOut, result>>
    /\ UNCHANGED nonLzVars

\* one turn of while (code >= HASH_FREE): push the suffix, follow the chain
LzChain ==
    /\ pc = "lzChain"
    /\ IF code >= HASH_FREE
       THEN IF stackPos >= CharStackSize
            THEN /\ lzRet' = 0
                 /\ lzOut' = BufferPrefix(dest, 0)
                 /\ pc' = AfterLz
                 /\ UNCHANGED <<charStack, stackPos, code>>
            ELSE /\ charStack' = Store(charStack, stackPos,
                                       HashAt(hashTable, code - HASH_FREE).suffix)
                 /\ stackPos' = stackPos + 1
                 /\ code' = HashAt(hashTable, code - HASH_FREE).chain
                 /\ pc' = "lzChain"
                 /\ UNCHANGED <<lzRet, lzOut>>
       ELSE /\ pc' = "lzEmit"
            /\ UNCHANGED <<charStack, stackPos, code, lzRet, lzOut>>
    /\ UNCHANGED <<enc, call, src, destLen, useZlib, packed, plain, dest, hashTable,
                   codeMask, maxIndex, freeIndex, oldChain, oldSuffix, bitCount,
                   srcPos, bitBuffer, bitsInBuffer, destPos, newChain,
                   actualSize, zlibOut, result>>
    /\ UNCHANGED nonLzVars

\* output the final character, then the stacked characters in reverse order
LzEmit ==
    /\ pc = "lzEmit"
    /\ oldSuffix' = code % 256
    /\ LET w == PutDest(dest, destPos, destLen, code % 256)
           e == DrainStack(w.dest, w.destPos, destLen, charStack, stackPos) IN
       /\ dest' = e.dest
       /\ destPos' = e.destPos
    /\ stackPos' = 0
    /\ pc' = "lzInsert"
    /\ UNCHANGED <<enc, call, src, destLen, useZlib, packed, plain, hashTable, codeMask,
                   maxIndex, freeIndex, oldChain, bitCount, srcPos, bitBuffer,
                   bitsInBuffer, charStack, code, newChain, lzRet,
                   actualSize, lzOut, zlibOut, result>>
    /\ UNCHANGED nonLzVars

\* add the new entry, widen the codes when the table reaches maxIndex
LzInsert ==
    /\ pc = "lzInsert"
    /\ IF freeIndex < HashCells + HASH_FREE
       THEN /\ hashTable' = Store(hashTable, freeIndex - HASH_FREE,
                                  [chain |-> oldChain % 65536, suffix |-> oldSuffix])
            /\ freeIndex' = freeIndex + 1
            /\ IF freeIndex + 1 >= maxIndex /\ bitCount < MaxBits
               THEN /\ bitCount' = bitCount + 1
                    /\ maxIndex' = Shl(maxIndex, 1)
                    /\ codeMask' = BitOr(Shl(codeMask, 1), 1)
               ELSE UNCHANGED <<bitCount, maxIndex, codeMask>>
       ELSE UNCHANGED <<hashTable, freeIndex, bitCount, maxIndex, codeMask>>
    /\ oldChain' = newChain
    /\ pc' = "lzLoop"
    /\ UNCHANGED <<enc, call, src, destLen, useZlib, packed, plain, dest, oldSuffix,
                   srcPos, bitBuffer, bitsInBuffer, destPos, charStack, stackPos,
                   code, newChain, lzRet, actualSize, lzOut, zlibOut, result>>
    /\ UNCHANGED nonLzVars

(***************************************************************************)
(* zlibDecompress: inflate() is the zlib library's; it may write any       *)
(* number of bytes before it reports success or an error, and the build    *)
(* without MCGNG_HAS_ZLIB writes nothing and returns 0                     *)
(***************************************************************************)
ZlibWrite(d, n, b) == [j \in (DOMAIN d) \cup (0..(n - 1)) |-> IF j < n THEN b ELSE d[j]]

ZlibDecompress(s, d, cap) ==
    IF Len(s) = 0 \/ cap = 0
    THEN {[dest |-> d, written |-> <<>>, ret |-> 0]}
    ELSE {[dest |-> ZlibWrite(d, n, b), written |-> [i \in 1..n |-> b],
           ret |-> IF ok THEN n ELSE 0] :
            n \in 0..cap, b \in ZlibBytes, ok \in BOOLEAN}

NoZlib == [called |-> FALSE, written |-> <<>>, ret |-> 0]

(***************************************************************************)
(* decompress(src, srcLen, uncompressedSize, useZlib)                      *)
(***************************************************************************)
\* argument check, allocation of the zeroed result buffer, choice of decoder
Decompress ==
    /\ pc = "decompress"
    /\ dest' = <<>>
    /\ IF srcLen = 0 \/ destLen = 0
       THEN /\ result' = <<>>
            /\ pc' = "done"
       ELSE /\ pc' = IF useZlib THEN "zlib" ELSE "lzEnter"
            /\ UNCHANGED result
    /\ UNCHANGED <<enc, call, src, destLen, useZlib, packed, plain, hashTable, codeMask,
                   maxIndex, freeIndex, oldChain, oldSuffix, bitCount, srcPos,
                   bitBuffer, bitsInBuffer, destPos, charStack, stackPos, code,
                   newChain, lzRet, actualSize, lzOut, zlibOut>>
    /\ UNCHANGED nonLzVars

\* useZlib: actualSize = zlibDecompress(...)
DecompressZlib ==
    /\ pc = "zlib"
    /\ \E z \in ZlibDecompress(src, dest, destLen) :
          /\ dest' = z.dest
          /\ actualSize' = z.ret
          /\ zlibOut' = [called |-> TRUE, written |-> z.written, ret |-> z.ret]
    /\ pc' = "finish"
    /\ UNCHANGED <<enc, call, src, destLen, useZlib, packed, plain, hashTable, codeMask,
                   maxIndex, freeIndex, oldChain, oldSuffix, bitCount, srcPos,
                   bitBuffer, bitsInBuffer, destPos, charStack, stackPos, code,
                   newChain, lzRet, lzOut, result>>
    /\ UNCHANGED nonLzVars

\* actualSize = lzDecompress(...); if it is below half the expected size, try
\* zlibDecompress on the same buffer and keep the larger count
DecompressFallback ==
    /\ pc = "fallback"
    /\ IF lzRet < destLen \div 2
       THEN \E z \in ZlibDecompress(src, dest, destLen) :
               /\ dest' = z.dest
               /\ actualSize' = IF z.ret > lzRet THEN z.ret ELSE lzRet
               /\ zlibOut' = [called |-> TRUE, written |-> z.written, ret |-> z.ret]
       ELSE /\ actualSize' = lzRet
            /\ UNCHANGED <<dest, zlibOut>>
    /\ pc' = "finish"
    /\ UNCHANGED <<enc, call, src, destLen, useZlib, packed, plain, hashTable, codeMask,
                   maxIndex, freeIndex, oldChain, oldSuffix, bitCount, srcPos,
                   bitBuffer, bitsInBuffer, destPos, charStack, stackPos, code,
                   newChain, lzRet, lzOut, result>>
    /\ UNCHANGED nonLzVars

\* if (actualSize == 0) return {}; result.resize(actualSize); return result;
DecompressFinish ==
    /\ pc = "finish"
    /\ result' = IF actualSize = 0 THEN <<>> ELSE BufferPrefix(dest, actualSize)
    /\ pc' = "done"
    /\ UNCHANGED <<enc, call, src, destLen, useZlib, packed, plain, dest, hashTable,
                   codeMask, maxIndex, freeIndex, oldChain, oldSuffix, bitCount,
                   srcPos, bitBuffer, bitsInBuffer, destPos, charStack, stackPos,
                   code, newChain, lzRet, actualSize, lzOut, zlibOut>>
    /\ UNCHANGED nonLzVars

(***************************************************************************)
(* The compressor the streams of the archives come from: an LZW encoder    *)
(* that emits the first byte as a literal, adds one table entry per code   *)
(* from 258 on, writes codes least significant bit first at the width the  *)
(* decoder expects, and ends with the end-of-data code                     *)
(***************************************************************************)
\* the code of the table entry (w, c), or -1
DictFind(dict, w, c) ==
    IF \E k \in 1..Len(dict) : dict[k] = <<w, c>>
    THEN HASH_FREE - 1 + (CHOOSE k \in 1..Len(dict) : dict[k] = <<w, c>>)
    ELSE -1

\* the width of the j-th code of a stream: the table has 258 + (j - 2) codes
\* when it is read
CodeWidth(j) ==
    LET f == HASH_FREE + (IF j >= 2 THEN j - 2 ELSE 0) IN
    IF f < 512 THEN 9 ELSE IF f < 1024 THEN 10 ELSE IF f < 2048 THEN 11 ELSE 12

\* move the whole bytes of the bit accumulator to the stream
RECURSIVE FlushBytes(_, _, _)
FlushBytes(out, acc, nbits) ==
    IF nbits >= 8 THEN FlushBytes(Append(out, acc % 256), acc \div 256, nbits - 8)
    ELSE [out |-> out, acc |-> acc, bits |-> nbits]

\* append one code to the stream
EmitCode(out, e, c) ==
    LET f == FlushBytes(out, e.acc + c * Pow2(e.bits), e.bits + CodeWidth(e.count + 1)) IN
    [out |-> f.out, acc |-> f.acc, bits |-> f.bits, count |-> e.count + 1]

EncIdle == [w |-> -1, dict |-> <<>>, pos |-> 0, acc |-> 0, bits |-> 0, count |-> 0]

\* take the next byte of the text: extend the current phrase, or emit its
\* code, add the phrase to the table and start a new one
CompressStep ==
    /\ pc = "compress"
    /\ enc.pos < Len(plain)
    /\ LET c == plain[enc.pos + 1]
           f == DictFind(enc.dict, enc.w, c) IN
       IF enc.pos = 0
       THEN /\ enc' = [enc EXCEPT !.w = c, !.pos = 1]
            /\ UNCHANGED src
       ELSE IF f # -1
       THEN /\ enc' = [enc EXCEPT !.w = f, !.pos = @ + 1]
            /\ UNCHANGED src
       ELSE LET e == EmitCode(src, enc, enc.w) IN
            /\ src' = e.out
            /\ enc' = [w |-> c,
                       dict |-> IF HASH_FREE + Len(enc.dict) < Pow2(MaxBits)
                                THEN Append(enc.dict, <<enc.w, c>>) ELSE enc.dict,
                       pos |-> enc.pos + 1,
                       acc |-> e.acc, bits |-> e.bits, count |-> e.count]
    /\ UNCHANGED <<call, destLen, useZlib, packed, plain, dest, hashTable, codeMask,
                   maxIndex, freeIndex, oldChain, oldSuffix, bitCount, srcPos,
                   bitBuffer, bitsInBuffer, destPos, charStack, stackPos, code,
                   newChain, lzRet, actualSize, lzOut, zlibOut, result, pc>>
    /\ UNCHANGED nonLzVars

\* end of the text: emit the last phrase and the end-of-data code, pad the
\* last byte with zero bits, and hand the stream to decompress()
CompressEnd ==
    /\ pc = "compress"
    /\ enc.pos = Len(plain)
    /\ LET e1 == IF enc.pos = 0
                 THEN [out |-> src, acc |-> enc.acc, bits |-> enc.bits, count |-> enc.count]
                 ELSE EmitCode(src, enc, enc.w)
           e2 == EmitCode(e1.out, e1, HASH_EOF) IN
       /\ src' = IF e2.bits > 0 THEN Append(e2.out, e2.acc) ELSE e2.out
       /\ enc' = [enc EXCEPT !.acc = 0, !.bits = 0, !.count = e2.count]
    /\ pc' = "decompress"
    /\ UNCHANGED <<call, destLen, useZlib, packed, plain, dest, hashTable, codeMask,
                   maxIndex, freeIndex, oldChain, oldSuffix, bitCount, srcPos,
                   bitBuffer, bitsInBuffer, destPos, charStack, stackPos, code,
                   newChain, lzRet, actualSize, lzOut, zlibOut, result>>
    /\ UNCHANGED nonLzVars

\* a text of 17 bytes with period 3
Text17 == [i \in 1..17 |-> 97 + (i % 3)]

\* 300 bytes without a repeated pair (0, 1, ..., 255, 0, 2, 4, ...), twice:
\* the first half fills the table past 512 codes, the second half uses them
Ramp(i) == IF i <= 256 THEN i - 1 ELSE (2 * (i - 257)) % 256

Text600 == [i \in 1..600 |-> Ramp(((i - 1) % 300) + 1)]

\* 4096 bytes with period 2
Text4096 == [i \in 1..4096 |-> 97 + (i % 2)]

\* the plain texts of the round trip
Texts == SeqsUpTo(PlainBytes, MaxPlainLen) \cup {Text17, Text600, Text4096}

(***************************************************************************)
(* std::ifstream as the archive readers use it                             *)
(***************************************************************************)
ClosedStream == [open |-> FALSE, fail |-> FALSE, eof |-> FALSE, pos |-> 0]

\* bytes [off, off + n) of a file, off counted from 0
Slice(f, off, n) == [i \in 1..n |-> f[off + i]]

\* read(buf, n): nothing is read from a stream that is not good(); a read
\* that runs into the end of the file stores what is there and sets eofbit
\* and failbit
StreamRead(st, f, n) ==
    IF st.fail \/ st.eof
    THEN [st |-> [st EXCEPT !.fail = TRUE], data |-> <<>>]
    ELSE LET avail == IF st.pos < Len(f) THEN Len(f) - st.pos ELSE 0 IN
         IF n <= avail
         THEN [st |-> [st EXCEPT !.pos = st.pos + n], data |-> Slice(f, st.pos, n)]
         ELSE [st |-> [st EXCEPT !.pos = st.pos + avail, !.eof = TRUE, !.fail = TRUE],
               data |-> Slice(f, st.pos, avail)]

\* seekg(off): clears eofbit, then does nothing when failbit is set; a
\* position past the end of the file is accepted, a negative one fails
StreamSeek(st, off) ==
    IF st.fail THEN [st EXCEPT !.eof = FALSE]
    ELSE IF off < 0 THEN [st EXCEPT !.eof = FALSE, !.fail = TRUE]
    ELSE [st EXCEPT !.eof = FALSE, !.pos = off]

\* tellg(): -1 when failbit is set
StreamTell(st) == IF st.fail THEN -1 ELSE st.pos

\* clear()
StreamClear(st) == [st EXCEPT !.fail = FALSE, !.eof = FALSE]

\* a little-endian uint32_t out of up to four bytes; missing bytes are 0
ByteOr0(d, i) == IF i <= Len(d) THEN d[i] ELSE 0

LE32(d) == ByteOr0(d, 1) + 256 * ByteOr0(d, 2) + 65536 * ByteOr0(d, 3)
           + 16777216 * ByteOr0(d, 4)

LE32Bytes(n) == <<n % 256, (n \div 256) % 256, (n \div 65536) % 256, (n \div 16777216) % 256>>

\* a > n for a uint32_t kept in halves and 0 <= n < 2^31
U32Gt(a, n) == a.hi >= Half \div 2 \/ a.hi * Half + a.lo > n

(***************************************************************************)
(* fst_reader.cpp                                                          *)
(***************************************************************************)
MAX_FILENAME_SIZE == 250
\* sanity ceiling of the entry count
FstMaxEntries == 100000

\* std::string(pathBuffer): the bytes before the first NUL
RECURSIVE CString(_, _)
CString(buf, i) ==
    IF i > Len(buf) \/ buf[i] = 0 THEN <<>>
    ELSE <<buf[i]>> \o CString(buf, i + 1)

\* std::replace(begin, end, '\\', '/')
ReplaceBackslash(p) == [i \in 1..Len(p) |-> IF p[i] = 92 THEN 47 ELSE p[i]]

\* pop_back while the last character is NUL, space, CR or LF
RECURSIVE TrimTrailing(_)
TrimTrailing(p) ==
    IF p # <<>> /\ p[Len(p)] \in {0, 32, 13, 10}
    THEN TrimTrailing(SubSeq(p, 1, Len(p) - 1))
    ELSE p

\* the loop of readEntryTable from entry i on
RECURSIVE FstReadEntries(_, _, _, _, _)
FstReadEntries(f, st, i, numEntries, entries) ==
    IF i >= numEntries THEN [ok |-> TRUE, st |-> st, entries |-> entries]
    ELSE LET r1 == StreamRead(st, f, 4)
             r2 == StreamRead(r1.st, f, 4)
             r3 == StreamRead(r2.st, f, 4)
             r4 == StreamRead(r3.st, f, MAX_FILENAME_SIZE) IN
         IF r4.st.fail THEN [ok |-> FALSE, st |-> r4.st, entries |-> entries]
         ELSE FstReadEntries(f, r4.st, i + 1, numEntries,
                Append(entries,
                       [dataOffset |-> LE32(r1.data),
                        compressedSize |-> LE32(r2.data),
                        uncompressedSize |-> LE32(r3.data),
                        filePath |-> TrimTrailing(ReplaceBackslash(CString(r4.data, 1)))]))

FstReadEntryTable(f, st) ==
    LET r == StreamRead(st, f, 4) IN
    IF r.st.fail THEN [ok |-> FALSE, st |-> r.st, entries |-> <<>>]
    ELSE IF LE32(r.data) > FstMaxEntries THEN [ok |-> FALSE, st |-> r.st, entries |-> <<>>]
    ELSE FstReadEntries(f, r.st, 0, LE32(r.data), <<>>)

\* FstReader::open: close(), open the file, read the entry table, close()
\* again when that fails
FstOpen ==
    /\ pc = "closed"
    /\ reader = "fst"
    /\ LET t == FstReadEntryTable(fileBytes, [ClosedStream EXCEPT !.open = TRUE]) IN
       IF t.ok
       THEN /\ m_file' = t.st
            /\ m_entries' = t.entries
            /\ openResult' = TRUE
       ELSE /\ m_file' = ClosedStream
            /\ m_entries' = <<>>
            /\ openResult' = FALSE
    /\ pc' = "ready"
    /\ UNCHANGED <<reader, openable, fileBytes, m_fileSize, reqOffset, reqSize, readResult>>
    /\ UNCHANGED nonStreamVars

\* FstReader::readRawData(offset, size)
FstReadRawData(offset, size) ==
    /\ pc = "ready"
    /\ reader = "fst"
    /\ reqOffset' = offset
    /\ reqSize' = size
    /\ IF ~m_file.open \/ size = 0
       THEN /\ readResult' = <<>>
            /\ UNCHANGED m_file
       ELSE LET r == StreamRead(StreamSeek(m_file, offset), fileBytes, size) IN
            /\ m_file' = r.st
            /\ readResult' = IF r.st.fail THEN <<>> ELSE r.data
    /\ UNCHANGED <<reader, openable, fileBytes, m_entries, m_fileSize, openResult, pc>>
    /\ UNCHANGED nonStreamVars

(***************************************************************************)
(* pak_reader.cpp                                                          *)
(***************************************************************************)
\* PakStorageType
RAW == 0
FWF == 1
LZD == 2
HF == 3
ZLIB == 4
NUL == 7
\* sanity ceiling of the packet count
PakMaxPackets == 1000000

\* extractType and extractOffset of the seek table word stored in 4 bytes
ExtractType(w) == ByteOr0(w, 4) \div 32

ExtractOffset(w) == ByteOr0(w, 1) + 256 * ByteOr0(w, 2) + 65536 * ByteOr0(w, 3)
                    + 16777216 * (ByteOr0(w, 4) % 32)

\* the difference held at zero when the next offset is the smaller one
U32DiffClamped(a, b) == IF a >= b THEN U32Of(a - b) ELSE U32Of(0)

\* nextOffset - entry.offset in uint32_t arithmetic
U32Diff(a, b) ==
    IF a >= b THEN U32Of(a - b)
    ELSE LET d == b - a IN     \* 2^32 - d
         [hi |-> Half - 1 - ((d - 1) \div Half), lo |-> Half - 1 - ((d - 1) % Half)]

\* the loop of readSeekTable over the seek table words from entry i on
RECURSIVE PakParseEntries(_, _, _, _, _, _)
PakParseEntries(f, st, table, i, size, entries) ==
    LET numPackets == Len(table) \div 4 IN
    IF i >= numPackets THEN [st |-> st, entries |-> entries]
    ELSE LET word == Slice(table, 4 * i, 4)
             offset == ExtractOffset(word)
             type == ExtractType(word)
             nextOffset == IF i + 1 < numPackets
                           THEN ExtractOffset(Slice(table, 4 * (i + 1), 4))
                           ELSE size
             packedSize == U32Diff(nextOffset, offset) IN
         IF type \in {LZD, ZLIB}
         THEN LET currentPos == StreamTell(st)
                  r == StreamRead(StreamSeek(st, offset), f, 4)
                  back == StreamSeek(r.st, currentPos) IN
              PakParseEntries(f, back, table, i + 1, size,
                  Append(entries, [offset |-> offset, storageType |-> type,
                                   packedSize |-> packedSize,
                                   unpackedSize |-> U32Of(LE32(r.data))]))
         ELSE PakParseEntries(f, st, table, i + 1, size,
                  Append(entries, [offset |-> offset, storageType |-> type,
                                   packedSize |-> packedSize,
                                   unpackedSize |-> IF type \in {RAW, FWF}
                                                    THEN packedSize ELSE U32Of(0)]))

\* the count clamped at zero instead of wrapping
PakCountClamped(firstPacketOffset) ==
    IF firstPacketOffset \div 4 < 2 THEN U32Of(0)
    ELSE U32Sub(U32Of(firstPacketOffset \div 4), 2)

\* uint32_t numPackets = (firstPacketOffset / sizeof(uint32_t)) - 2
PakCount(firstPacketOffset) == U32Sub(U32Of(firstPacketOffset \div 4), 2)

PakReadSeekTable(f, st, size) ==
    LET r1 == StreamRead(st, f, 4) IN
    IF r1.st.fail THEN [ok |-> FALSE, st |-> r1.st, entries |-> <<>>]
    ELSE LET r2 == StreamRead(r1.st, f, 4)
             firstPacketOffset == LE32(r2.data)
             numPackets == PakCount(firstPacketOffset) IN
         IF r2.st.fail THEN [ok |-> FALSE, st |-> r2.st, entries |-> <<>>]
         ELSE IF U32Gt(numPackets, PakMaxPackets) \/ firstPacketOffset > size
         THEN [ok |-> FALSE, st |-> r2.st, entries |-> <<>>]
         ELSE LET r3 == StreamRead(r2.st, f, 4 * numPackets.lo + 4 * Half * numPackets.hi) IN
              IF r3.st.fail THEN [ok |-> FALSE, st |-> r3.st, entries |-> <<>>]
              ELSE LET p == PakParseEntries(f, r3.st, r3.data, 0, size, <<>>) IN
                   [ok |-> TRUE, st |-> p.st, entries |-> p.entries]

\* PakReader::open: close(), open the file, take its size, read the seek
\* table, close() again when that fails
OpenPak ==
    /\ pc = "closed"
    /\ reader = "pak"
    /\ LET t == PakReadSeekTable(fileBytes, [ClosedStream EXCEPT !.open = TRUE],
                                 Len(fileBytes)) IN
       IF t.ok
       THEN /\ m_file' = t.st
            /\ m_entries' = t.entries
            /\ m_fileSize' = Len(fileBytes)
            /\ openResult' = TRUE
       ELSE /\ m_file' = ClosedStream
            /\ m_entries' = <<>>
            /\ m_fileSize' = 0
            /\ openResult' = FALSE
    /\ pc' = "ready"
    /\ UNCHANGED <<reader, openable, fileBytes, reqOffset, reqSize, readResult>>

\* open called on the archive directly
PakOpen ==
    /\ OpenPak
    /\ UNCHANGED nonStreamVars

\* the stream and the vector PakReader::readRawData(offset, size) leaves
PakRawData(offset, size) ==
    IF ~m_file.open \/ size = 0
    THEN [st |-> m_file, data |-> <<>>]
    ELSE LET r == StreamRead(StreamSeek(m_file, offset), fileBytes, size) IN
         IF r.st.fail
         THEN [st |-> StreamClear(r.st), data |-> <<>>]
         ELSE [st |-> r.st, data |-> r.data]

\* PakReader::readRawData(offset, size)
PakReadRawData(offset, size) ==
    /\ pc = "ready"
    /\ reader = "pak"
    /\ reqOffset' = offset
    /\ reqSize' = size
    /\ m_file' = PakRawData(offset, size).st
    /\ readResult' = PakRawData(offset, size).data
    /\ UNCHANGED <<reader, openable, fileBytes, m_entries, m_fileSize, openResult, pc>>
    /\ UNCHANGED nonStreamVars

(***************************************************************************)
(* Signed 32-bit arithmetic of shape_reader.cpp                            *)
(***************************************************************************)
INT_MAX == 2147483647
INT_MIN == -INT_MAX - 1

\* a + n for ints a and 0 <= n. Signed overflow is undefined behaviour: the
\* sum wraps around, or, where the compiler keeps it in a wider register, it
\* stays above every int it is compared with; INT_MAX stands for the latter
AddI32(a, n) ==
    IF a <= INT_MAX - n THEN {a + n}
    ELSE {((a - INT_MAX) + (n - INT_MAX)) - 2, INT_MAX}

\* a - b for ints a and b, with the same two outcomes on overflow
SubI32(a, b) ==
    IF b >= 0
    THEN IF a >= INT_MIN + b THEN {a - b}
         ELSE {(((a + INT_MAX) + 1) - b) + INT_MAX + 1, INT_MIN}
    ELSE IF a <= INT_MAX + b THEN {a - b}
         ELSE {(((a - INT_MAX) - 1) - b) - INT_MAX - 1, INT_MAX}

\* static_cast<int16_t> of a value in 0..65535
ToInt16(v) == IF v >= Half \div 2 THEN v - Half ELSE v

Min(a, b) == IF a <= b THEN a ELSE b

(***************************************************************************)
(* Byte buffers handed to ShapeReader::load. A buffer is written down as a *)
(* head, a block of bytes repeated a number of times, and a tail, so that  *)
(* buffers of megabytes have a value; data[k] and size are read off it     *)
(***************************************************************************)
Plain(bytes) == [head |-> bytes, block |-> <<>>, times |-> 0, tail |-> <<>>]

BufSize(b) == Len(b.head) + Len(b.block) * b.times + Len(b.tail)

\* where the repeated blocks end
BlocksEnd(b) == Len(b.head) + Len(b.block) * b.times

\* data[k] for 0 <= k < size
ByteAt(b, k) ==
    IF k < Len(b.head) THEN b.head[k + 1]
    ELSE IF k < BlocksEnd(b) THEN b.block[((k - Len(b.head)) % Len(b.block)) + 1]
    ELSE b.tail[(k - BlocksEnd(b)) + 1]

\* data[k] for any k: a read at or past the end of the buffer is undefined
\* behaviour and gives whatever byte g lies there
ReadAt(b, k, g) == IF k < BufSize(b) THEN ByteAt(b, k) ELSE g

\* memcpy of a uint32_t from data + k
ReadU32(b, k, g) ==
    ReadAt(b, k, g) + 256 * ReadAt(b, k + 1, g) + 65536 * ReadAt(b, k + 2, g)
    + 16777216 * ReadAt(b, k + 3, g)

\* memcpy of an int32_t from data + k
ReadI32(b, k, g) ==
    LET b3 == ReadAt(b, k + 3, g) IN
    ReadAt(b, k, g) + 256 * ReadAt(b, k + 1, g) + 65536 * ReadAt(b, k + 2, g)
    + 16777216 * (IF b3 >= 128 THEN b3 - 256 ELSE b3)

\* the bytes an out-of-bounds read may find
OobBytes == {0, 1}

\* the choice of that byte, which is open only when a read is out of bounds
OobChoice(outOfBounds) == IF outOfBounds THEN OobBytes ELSE {0}

(***************************************************************************)
(* shape_reader.cpp: ShapeReader::load                                     *)
(***************************************************************************)
\* sizeof(ShapeHeader)
ShapeHeaderSize == 24
\* the sanity limit of m_shapeCount
MaxShapeCount == 10000
\* the largest accepted width and height
MaxExtent == 1024

\* the pc values at which the reader is between two calls
ShapeReady == {"shapeIdle", "loadDone", "decodeDone"}

\* data[7..10] == "1.10"
IsMechLayout(b) ==
    /\ BufSize(b) >= 11
    /\ ByteAt(b, 7) = 49 /\ ByteAt(b, 8) = 46 /\ ByteAt(b, 9) = 49 /\ ByteAt(b, 10) = 48

\* data[0] is a digit and data[1] == '.'
IsStandardLayout(b) ==
    /\ BufSize(b) >= 4
    /\ ByteAt(b, 0) >= 48 /\ ByteAt(b, 0) <= 57 /\ ByteAt(b, 1) = 46

\* the indices of data[] the two layout tests read
LayoutReads(b) ==
    (IF BufSize(b) >= 11 THEN 7..10 ELSE {})
    \cup (IF ~IsMechLayout(b) /\ BufSize(b) >= 4 THEN {0, 1} ELSE {})

\* load(data, size) on the buffer b; g is the byte an out-of-bounds read finds
ShapeLoad(b) ==
    /\ pc \in ShapeReady
    /\ \E g \in OobChoice(IsMechLayout(b) /\ BufSize(b) < 15) :
       LET size == BufSize(b)
           headerOffset == IF IsMechLayout(b) THEN 7 ELSE 0
           shapeCount == ReadU32(b, headerOffset + 4, g)
           tableStart == headerOffset + 8
           tableSize == tableStart + shapeCount * 8
           headerReads == LayoutReads(b) \cup (headerOffset..(headerOffset + 7))
       IN
       /\ loadSize' = size
       /\ IF size < 8
          THEN /\ loadResult' = FALSE
               /\ loadReads' = {}
               /\ UNCHANGED <<m_data, m_size, m_version, m_headerOffset,
                              m_shapeCount, m_offsets, m_loaded>>
          ELSE /\ m_data' = b
               /\ m_size' = size
               /\ IF ~IsMechLayout(b) /\ ~IsStandardLayout(b)
                  THEN /\ loadResult' = FALSE
                       /\ loadReads' = LayoutReads(b)
                       /\ UNCHANGED <<m_version, m_headerOffset, m_shapeCount,
                                      m_offsets, m_loaded>>
                  ELSE /\ m_version' = [k \in 1..4 |-> ByteAt(b, headerOffset + k - 1)]
                       /\ m_headerOffset' = headerOffset
                       /\ m_shapeCount' = shapeCount
                       /\ IF shapeCount > MaxShapeCount \/ size < tableSize
                          THEN /\ loadResult' = FALSE
                               /\ loadReads' = headerReads
                               /\ UNCHANGED <<m_offsets, m_loaded>>
                          ELSE /\ m_offsets' = [k \in 1..shapeCount |->
                                                   ReadU32(b, tableStart + (k - 1) * 8, g)]
                               /\ m_loaded' = TRUE
                               /\ loadResult' = TRUE
                               /\ loadReads' = headerReads \cup
                                     {tableStart + (k - 1) * 8 + j :
                                          k \in 1..shapeCount, j \in 0..3}
    /\ pc' = "loadDone"
    /\ UNCHANGED <<tableBuf, decodeVars>>
    /\ UNCHANGED nonShapeVars

(***************************************************************************)
(* shape_reader.cpp: ShapeReader::decodeShape with getShapeHeader          *)
(***************************************************************************)
\* ShapeData{}
EmptyShape == [width |-> 0, height |-> 0, hotspotX |-> 0, hotspotY |-> 0,
               size |-> 0, pixels |-> <<>>]

\* the header local before getShapeHeader has filled it
NoHeader == [read |-> FALSE, bounds |-> 0, origin |-> 0,
             xmin |-> 0, ymin |-> 0, xmax |-> 0, ymax |-> 0]

\* m_offsets[k]: an index past the end of the vector reads whatever lies there
OobOffsets == {0, 16}

OffsetAt(k, o) == IF k < Len(m_offsets) THEN m_offsets[k + 1] ELSE o

\* the memcpy of getShapeHeader, which lies inside the buffer
HeaderAt(b, offset) ==
    [read |-> TRUE,
     bounds |-> ReadI32(b, offset, 0),      origin |-> ReadI32(b, offset + 4, 0),
     xmin |-> ReadI32(b, offset + 8, 0),    ymin |-> ReadI32(b, offset + 12, 0),
     xmax |-> ReadI32(b, offset + 16, 0),   ymax |-> ReadI32(b, offset + 20, 0)]

\* max - min + 1 in int arithmetic
Extent(min, max) == UNION {AddI32(d, 1) : d \in SubI32(max, min)}

\* the test that rejects a shape as corrupt
ExtentRejected(w, h) == w <= 0 \/ h <= 0 \/ w > MaxExtent \/ h > MaxExtent

\* what decodeShape leaves of the decodeRLE locals when decodeRLE does not run
RleNotRun ==
    /\ rleOffset' = 0
    /\ srcSize' = 0
    /\ rleSrcPos' = 0
    /\ rleX' = 0
    /\ rleY' = 0
    /\ rleMarker' = 0
    /\ rleCount' = 0
    /\ rleValue' = 0
    /\ rleI' = 0
    /\ rleWrites' = {}

\* decodeRLE entered with the column the last call left
RleEntryKeepsColumn ==
    /\ rleSrcPos' = 0
    /\ rleX' = rleX
    /\ rleY' = 0

\* size_t srcPos = 0; int x = 0; int y = 0
RleEntry ==
    /\ rleSrcPos' = 0
    /\ rleX' = 0
    /\ rleY' = 0

\* decodeShape(idx) up to the call of decodeRLE, and the first lines of
\* decodeRLE
DecodeShape(idx) ==
    /\ pc \in ShapeReady
    /\ shapeIndex' = idx
    /\ \E o \in (IF m_shapeCount > Len(m_offsets) THEN OobOffsets ELSE {0}) :
       LET offset == OffsetAt(idx, o)
           hdr == HeaderAt(m_data, offset)
           rleData == offset + ShapeHeaderSize
           next == OffsetAt(idx + 1, o)
       IN
       IF ~m_loaded \/ idx >= m_shapeCount \/ offset + ShapeHeaderSize > m_size
       THEN /\ header' = NoHeader
            /\ shapeData' = EmptyShape
            /\ RleNotRun
            /\ pc' = "decodeDone"
       ELSE /\ header' = hdr
            /\ \E w \in Extent(hdr.xmin, hdr.xmax), h \in Extent(hdr.ymin, hdr.ymax) :
               IF ExtentRejected(w, h) \/ rleData >= m_size
               THEN /\ shapeData' = EmptyShape
                    /\ RleNotRun
                    /\ pc' = "decodeDone"
               ELSE /\ shapeData' =
                          [width |-> w, height |-> h,
                           hotspotX |-> ToInt16((hdr.origin \div Half) % Half),
                           hotspotY |-> ToInt16(hdr.origin % Half),
                           size |-> w * h, pixels |-> <<>>]
                    /\ rleOffset' = rleData
                    /\ srcSize' = IF idx + 1 < m_shapeCount /\ next > rleData
                                  THEN next - rleData
                                  ELSE m_size - rleData
                    /\ RleEntry
                    /\ rleMarker' = 0
                    /\ rleCount' = 0
                    /\ rleValue' = 0
                    /\ rleI' = 0
                    /\ rleWrites' = {}
                    /\ pc' = "rle"
    /\ UNCHANGED <<readerVars>>
    /\ UNCHANGED nonShapeVars

(***************************************************************************)
(* shape_reader.cpp: ShapeReader::decodeRLE, one action per branch of the  *)
(* loop body and per iteration of the two inner loops                      *)
(***************************************************************************)
\* src[k]
SrcAt(k, g) == ReadAt(m_data, rleOffset + k, g)

\* the bytes a read of src may find past the end of the buffer
RleOob == OobChoice(rleOffset + srcSize > m_size)

\* marker >> 1 rounded up
PacketCountRoundedUp(m) == Shr(m + 1, 1)

\* uint8_t count = marker >> 1
PacketCount(m) == Shr(m, 1)

\* the guarded store dest[y * width + x] = v
PutPixel(s, px, py, v) ==
    IF px < s.width /\ py < s.height
    THEN [s EXCEPT !.pixels = Store(s.pixels, py * s.width + px, v)]
    ELSE s

Wrote(s, px, py) == px < s.width /\ py < s.height

\* while (srcPos < srcSize && y < height)
RleLoopCondition == rleSrcPos < srcSize /\ rleY < shapeData.height

\* the loop condition fails: decodeRLE returns true and decodeShape returns
\* the result
RleExit ==
    /\ pc = "rle"
    /\ ~RleLoopCondition
    /\ pc' = "decodeDone"
    /\ UNCHANGED <<header, shapeIndex, shapeData, rleOffset, srcSize, rleSrcPos, rleX, rleY,
                   rleMarker, rleCount, rleValue, rleI, rleWrites>>
    /\ UNCHANGED <<readerVars>>
    /\ UNCHANGED nonShapeVars

\* marker == 0: end of line
RleEndOfLine ==
    /\ pc = "rle"
    /\ RleLoopCondition
    /\ \E g \in RleOob :
       /\ SrcAt(rleSrcPos, g) = 0
       /\ rleMarker' = SrcAt(rleSrcPos, g)
    /\ rleSrcPos' = rleSrcPos + 1
    /\ rleX' = 0
    /\ rleY' = rleY + 1
    /\ pc' = "rle"
    /\ UNCHANGED <<header, shapeIndex, shapeData, rleOffset, srcSize, rleCount, rleValue,
                   rleI, rleWrites>>
    /\ UNCHANGED <<readerVars>>
    /\ UNCHANGED nonShapeVars

\* how many more additions of c the column takes before it overflows
SkipRoom(c) ==
    IF c = 0 THEN INT_MAX
    ELSE IF rleX >= 0 THEN ((INT_MAX - rleX) \div c) + 1
    ELSE INT_MAX \div c

\* A buffer whose repeated block is a skip packet makes the loop take the
\* same branch once per repetition; these iterations are taken in one step,
\* up to the one whose addition overflows. Elsewhere the step is one iteration
SkipRepeats(c) ==
    LET p == rleOffset + rleSrcPos
        b == m_data
    IN
    IF /\ Len(b.block) = 2
       /\ b.block[1] = 1
       /\ p >= Len(b.head)
       /\ p < BlocksEnd(b)
       /\ (p - Len(b.head)) % 2 = 0
    THEN Min(Min((BlocksEnd(b) - p) \div 2, (srcSize - rleSrcPos) \div 2), SkipRoom(c))
    ELSE 1

\* marker == 1: skip packet
RleSkip ==
    /\ pc = "rle"
    /\ RleLoopCondition
    /\ \E g \in RleOob :
       /\ SrcAt(rleSrcPos, g) = 1
       /\ rleMarker' = SrcAt(rleSrcPos, g)
       /\ IF rleSrcPos + 1 >= srcSize
          THEN /\ rleSrcPos' = rleSrcPos + 1
               /\ pc' = "decodeDone"
               /\ UNCHANGED <<rleCount, rleX>>
          ELSE LET c == SrcAt(rleSrcPos + 1, g)
                   n == SkipRepeats(c)
               IN
               /\ rleCount' = c
               /\ rleX' \in AddI32(rleX + (n - 1) * c, c)
               /\ rleSrcPos' = rleSrcPos + 2 * n
               /\ pc' = "rle"
    /\ UNCHANGED <<header, shapeIndex, shapeData, rleOffset, srcSize, rleY, rleValue, rleI,
                   rleWrites>>
    /\ UNCHANGED <<readerVars>>
    /\ UNCHANGED nonShapeVars

\* marker & 1: string packet, up to the inner loop
RleString ==
    /\ pc = "rle"
    /\ RleLoopCondition
    /\ \E g \in RleOob :
       /\ SrcAt(rleSrcPos, g) > 1
       /\ SrcAt(rleSrcPos, g) % 2 = 1
       /\ rleMarker' = SrcAt(rleSrcPos, g)
       /\ rleCount' = PacketCount(SrcAt(rleSrcPos, g))
    /\ rleSrcPos' = rleSrcPos + 1
    /\ rleI' = 0
    /\ pc' = "rleString"
    /\ UNCHANGED <<header, shapeIndex, shapeData, rleOffset, srcSize, rleX, rleY, rleValue,
                   rleWrites>>
    /\ UNCHANGED <<readerVars>>
    /\ UNCHANGED nonShapeVars

\* one iteration of the loop that copies the literal bytes, or its end
RleStringLoop ==
    /\ pc = "rleString"
    /\ IF rleI < rleCount /\ rleSrcPos < srcSize
       THEN /\ \E g \in RleOob :
                 shapeData' = PutPixel(shapeData, rleX, rleY, SrcAt(rleSrcPos, g))
            /\ rleWrites' = IF Wrote(shapeData, rleX, rleY)
                            THEN rleWrites \cup {<<rleX, rleY>>}
                            ELSE rleWrites
            /\ rleX' \in AddI32(rleX, 1)
            /\ rleSrcPos' = rleSrcPos + 1
            /\ rleI' = rleI + 1
            /\ pc' = "rleString"
       ELSE /\ pc' = "rle"
            /\ UNCHANGED <<shapeData, rleWrites, rleX, rleSrcPos, rleI>>
    /\ UNCHANGED <<header, shapeIndex, rleOffset, srcSize, rleY, rleMarker, rleCount,
                   rleValue>>
    /\ UNCHANGED <<readerVars>>
    /\ UNCHANGED nonShapeVars

\* marker even: run packet, up to the inner loop
RleRun ==
    /\ pc = "rle"
    /\ RleLoopCondition
    /\ \E g \in RleOob :
       /\ SrcAt(rleSrcPos, g) > 1
       /\ SrcAt(rleSrcPos, g) % 2 = 0
       /\ rleMarker' = SrcAt(rleSrcPos, g)
       /\ rleCount' = PacketCount(SrcAt(rleSrcPos, g))
       /\ IF rleSrcPos + 1 >= srcSize
          THEN /\ rleSrcPos' = rleSrcPos + 1
               /\ pc' = "decodeDone"
               /\ UNCHANGED <<rleValue, rleI>>
          ELSE /\ rleValue' = SrcAt(rleSrcPos + 1, g)
               /\ rleSrcPos' = rleSrcPos + 2
               /\ rleI' = 0
               /\ pc' = "rleRun"
    /\ UNCHANGED <<header, shapeIndex, shapeData, rleOffset, srcSize, rleX, rleY, rleWrites>>
    /\ UNCHANGED <<readerVars>>
    /\ UNCHANGED nonShapeVars

\* one iteration of the loop that repeats the value, or its end
RleRunLoop ==
    /\ pc = "rleRun"
    /\ IF rleI < rleCount
       THEN /\ shapeData' = PutPixel(shapeData, rleX, rleY, rleValue)
            /\ rleWrites' = IF Wrote(shapeData, rleX, rleY)
                            THEN rleWrites \cup {<<rleX, rleY>>}
                            ELSE rleWrites
            /\ rleX' \in AddI32(rleX, 1)
            /\ rleI' = rleI + 1
            /\ pc' = "rleRun"
       ELSE /\ pc' = "rle"
            /\ UNCHANGED <<shapeData, rleWrites, rleX, rleI>>
    /\ UNCHANGED <<header, shapeIndex, rleOffset, srcSize, rleSrcPos, rleY, rleMarker,
                   rleCount, rleValue>>
    /\ UNCHANGED <<readerVars>>
    /\ UNCHANGED nonShapeVars

RleSteps ==
    \/ RleExit
    \/ RleEndOfLine
    \/ RleSkip
    \/ RleString
    \/ RleRun
    \/ RleStringLoop
    \/ RleRunLoop

(***************************************************************************)
(* pak_reader.cpp: PakReader::readPacket, which hands compressed packets   *)
(* to decompress() and returns what that returns                           *)
(***************************************************************************)
\* a uint32_t as a size; every size of 2^31 and more is past the end of any
\* file of the model, and INT_MAX stands for it
SizeOf(a) == IF a.hi >= Half \div 2 THEN INT_MAX ELSE a.hi * Half + a.lo

\* the variables of the decompressor other than its arguments
lzLocals == <<enc, packed, plain, dest, hashTable, codeMask, maxIndex, freeIndex,
              oldChain, oldSuffix, bitCount, srcPos, bitBuffer, bitsInBuffer, destPos,
              charStack, stackPos, code, newChain, lzRet, actualSize, lzOut, zlibOut,
              result>>

\* readPacket(idx) up to its return or its call of decompress
ReadPacket(idx) ==
    /\ pc = "ready"
    /\ reader = "pak"
    /\ packetIndex' = idx
    /\ IF idx >= Len(m_entries) \/ m_entries[idx + 1].storageType \notin {RAW, FWF, LZD, ZLIB}
       THEN /\ packetResult' = <<>>
            /\ pc' = "ready"
            /\ UNCHANGED <<m_file, call, src, destLen, useZlib>>
       ELSE LET entry == m_entries[idx + 1] IN
            IF entry.storageType \in {RAW, FWF}
            THEN LET r == PakRawData(entry.offset, SizeOf(entry.packedSize)) IN
                 /\ m_file' = r.st
                 /\ packetResult' = r.data
                 /\ pc' = "ready"
                 /\ UNCHANGED <<call, src, destLen, useZlib>>
            ELSE LET r == PakRawData(entry.offset + 4, SizeOf(U32Sub(entry.packedSize, 4))) IN
                 /\ m_file' = r.st
                 /\ IF r.data = <<>>
                    THEN /\ packetResult' = <<>>
                         /\ pc' = "ready"
                         /\ UNCHANGED <<call, src, destLen, useZlib>>
                    ELSE /\ call' = "decompress"
                         /\ src' = r.data
                         /\ destLen' = SizeOf(entry.unpackedSize)
                         /\ useZlib' = (entry.storageType = ZLIB)
                         /\ pc' = "decompress"
                         /\ UNCHANGED packetResult
    /\ UNCHANGED <<reader, openable, fileBytes, m_entries, m_fileSize, openResult, reqOffset,
                   reqSize, readResult>>
    /\ UNCHANGED <<lzLocals, shapeVars>>

\* readPacket(idx) called on the archive directly
PakReadPacket(idx) ==
    /\ ReadPacket(idx)
    /\ UNCHANGED <<loaderVars, fstVars, extractVars, missionVars>>

\* decompress has returned to readPacket, which returns its vector
PakPacketReturn ==
    /\ pc = "done"
    /\ reader = "pak"
    /\ call = "decompress"
    /\ packetResult' = result
    /\ pc' = "ready"
    /\ UNCHANGED <<packetIndex, loaderVars, fstVars, extractVars, missionVars, lzVars, streamVars,
                   shapeVars>>

(***************************************************************************)
(* fst_reader.cpp: FstReader::findEntry and readFile                       *)
(***************************************************************************)
\* a comparison that tells the cases apart
ToLowerNone(c) == c

\* std::tolower of an unsigned char in the C locale
ToLower(c) == IF c >= 65 /\ c <= 90 THEN c + 32 ELSE c

\* the lambda of findEntry: the lengths first, then character by character
SamePath(filePath, search) ==
    /\ Len(filePath) = Len(search)
    /\ \A i \in 1..Len(filePath) : ToLower(filePath[i]) = ToLower(search[i])

\* std::find_if over m_entries from the k-th entry on: its place, or 0
RECURSIVE FindFrom(_, _)
FindFrom(search, k) ==
    IF k > Len(m_entries) THEN 0
    ELSE IF SamePath(m_entries[k].filePath, search) THEN k
    ELSE FindFrom(search, k + 1)

\* findEntry(path)
FindEntry(path) == FindFrom(ReplaceBackslash(path), 1)

\* the entries the lambda got past the length test with, and so compared
\* characters of
ComparedBy(path) ==
    LET last == IF FindEntry(path) = 0 THEN Len(m_entries) ELSE FindEntry(path) IN
    {k \in 1..last : Len(m_entries[k].filePath) = Len(path) /\ Len(path) > 0}

\* FstEntry::isCompressed
IsCompressed(e) == e.compressedSize < e.uncompressedSize /\ e.compressedSize > 0

\* the stream and the vector FstReader::readRawData(offset, size) leaves
FstRawData(offset, size) ==
    IF ~m_file.open \/ size = 0
    THEN [st |-> m_file, data |-> <<>>]
    ELSE LET r == StreamRead(StreamSeek(m_file, offset), fileBytes, size) IN
         [st |-> r.st, data |-> IF r.st.fail THEN <<>> ELSE r.data]

\* findEntry(path) called on the archive: a const member
FstFindEntry(path) ==
    /\ pc = "ready"
    /\ reader = "fst"
    /\ searchPath' = path
    /\ foundEntry' = FindEntry(path)
    /\ compared' = ComparedBy(path)
    /\ UNCHANGED <<fileEntry, fileResult, packetIndex, packetResult, loaderVars,
                   extractVars, missionVars>>
    /\ UNCHANGED <<lzVars, streamVars, shapeVars, pc>>

\* readFile(entry) up to its return or its call of decompress
ReadEntry(e) ==
    /\ pc = "ready"
    /\ reader = "fst"
    /\ IF ~m_file.open
       THEN /\ fileResult' = <<>>
            /\ UNCHANGED <<m_file, call, src, destLen, useZlib, pc>>
       ELSE LET readSize == IF IsCompressed(e) THEN e.compressedSize
                            ELSE e.uncompressedSize
                r == FstRawData(e.dataOffset, readSize) IN
            /\ m_file' = r.st
            /\ IF r.data = <<>> \/ ~IsCompressed(e)
               THEN /\ fileResult' = r.data
                    /\ UNCHANGED <<call, src, destLen, useZlib, pc>>
               ELSE /\ call' = "decompress"
                    /\ src' = r.data
                    /\ destLen' = e.uncompressedSize
                    /\ useZlib' = FALSE
                    /\ pc' = "decompress"
                    /\ UNCHANGED fileResult
    /\ UNCHANGED <<reader, openable, fileBytes, m_entries, m_fileSize, openResult, reqOffset,
                   reqSize, readResult>>
    /\ UNCHANGED <<lzLocals, shapeVars, packetIndex, packetResult, loaderVars>>

\* readFile(path): findEntry, then readFile of the entry found
FstReadFile(path) ==
    /\ reader = "fst"
    /\ searchPath' = path
    /\ foundEntry' = FindEntry(path)
    /\ compared' = ComparedBy(path)
    /\ fileEntry' = FindEntry(path)
    /\ IF FindEntry(path) = 0
       THEN /\ pc = "ready"
            /\ reader = "fst"
            /\ fileResult' = <<>>
            /\ UNCHANGED <<lzVars, streamVars, shapeVars, packetIndex, packetResult,
                           loaderVars, pc>>
       ELSE ReadEntry(m_entries[FindEntry(path)])
    /\ UNCHANGED <<extractVars, missionVars>>

\* decompress has returned to readFile, which returns its vector
FstFileReturn ==
    /\ pc = "done"
    /\ reader = "fst"
    /\ call = "decompress"
    /\ fileResult' = result
    /\ pc' = "ready"
    /\ UNCHANGED <<searchPath, foundEntry, compared, fileEntry, packetIndex, packetResult,
                   loaderVars, extractVars, missionVars>>
    /\ UNCHANGED <<lzVars, streamVars, shapeVars>>

(***************************************************************************)
(* fst_reader.cpp, pak_reader.cpp: open on a handle in any state           *)
(***************************************************************************)
\* a close() that forgets to clear the directory
CloseKeepsEntries(st) ==
    [m_file |-> [st EXCEPT !.open = FALSE, !.pos = 0], m_entries |-> m_entries,
     m_fileSize |-> 0]

\* close(): the stream is closed (its state flags stay), the directory is
\* cleared and PakReader's m_fileSize is zeroed
Close(st) ==
    [m_file |-> [st EXCEPT !.open = FALSE, !.pos = 0], m_entries |-> <<>>,
     m_fileSize |-> 0]

\* std::ifstream::open: failbit when the file does not open, clear() when
\* it does
StreamOpen(st, canOpen) ==
    IF canOpen THEN [open |-> TRUE, fail |-> FALSE, eof |-> FALSE, pos |-> 0]
    ELSE [st EXCEPT !.fail = TRUE]

\* FstReader::open(path), f the content of the file at path
FstOpenFile(f, canOpen) ==
    /\ pc \in {"closed", "ready"}
    /\ reader = "fst"
    /\ fileBytes' = f
    /\ openable' = canOpen
    /\ LET closed == Close(m_file)
           opened == StreamOpen(closed.m_file, canOpen)
           t == FstReadEntryTable(f, opened) IN
       IF ~canOpen
       THEN /\ m_file' = opened
            /\ m_entries' = closed.m_entries
            /\ openResult' = FALSE
       ELSE IF t.ok
       THEN /\ m_file' = t.st
            /\ m_entries' = closed.m_entries \o t.entries
            /\ openResult' = TRUE
       ELSE /\ m_file' = Close(t.st).m_file
            /\ m_entries' = Close(t.st).m_entries
            /\ openResult' = FALSE
    /\ pc' = "ready"
    /\ UNCHANGED <<reader, m_fileSize, reqOffset, reqSize, readResult>>
    /\ UNCHANGED nonStreamVars

\* PakReader::open(path), f the content of the file at path
PakOpenFile(f, canOpen) ==
    /\ pc \in {"closed", "ready"}
    /\ reader = "pak"
    /\ fileBytes' = f
    /\ openable' = canOpen
    /\ LET closed == Close(m_file)
           opened == StreamOpen(closed.m_file, canOpen)
           t == PakReadSeekTable(f, opened, Len(f)) IN
       IF ~canOpen
       THEN /\ m_file' = opened
            /\ m_entries' = closed.m_entries
            /\ m_fileSize' = closed.m_fileSize
            /\ openResult' = FALSE
       ELSE IF t.ok
       THEN /\ m_file' = t.st
            /\ m_entries' = closed.m_entries \o t.entries
            /\ m_fileSize' = Len(f)
            /\ openResult' = TRUE
       ELSE /\ m_file' = Close(t.st).m_file
            /\ m_entries' = Close(t.st).m_entries
            /\ m_fileSize' = Close(t.st).m_fileSize
            /\ openResult' = FALSE
    /\ pc' = "ready"
    /\ UNCHANGED <<reader, reqOffset, reqSize, readResult>>
    /\ UNCHANGED nonStreamVars

\* readFile(entry) with an entry the caller holds a copy of
FstReadFileEntry(e) ==
    /\ ReadEntry(e)
    /\ fileEntry' = 0
    /\ UNCHANGED <<searchPath, foundEntry, compared, extractVars, missionVars>>

(***************************************************************************)
(* fst_reader.cpp, pak_reader.cpp: extractAll                              *)
(***************************************************************************)
\* what the file system makes of one output file: the directories cannot
\* be created (only where they are created per file), the file cannot be
\* opened, the write fails (only where something is written), or the file is
\* written
FileOutcomes(data, perFileDirectory) ==
    {"written", "noFile"}
        \cup (IF perFileDirectory THEN {"noDirectory"} ELSE {})
        \cup (IF data # <<>> THEN {"writeFailed"} ELSE {})

\* FstReader::extractAll up to its loop
FstExtractAll ==
    /\ pc = "ready"
    /\ reader = "fst"
    /\ extractPc = "idle"
    /\ extractPc' = IF ~m_file.open \/ m_entries = <<>> THEN "refused" ELSE "loop"
    /\ extractI' = 0
    /\ extracted' = 0
    /\ UNCHANGED <<attempted, written, fstVars, packetIndex, packetResult, loaderVars>>
    /\ UNCHANGED <<lzVars, streamVars, shapeVars, pc>>
    /\ UNCHANGED missionVars

\* extractFile: auto data = readFile(entry)
FstExtractRead ==
    /\ extractPc = "loop"
    /\ reader = "fst"
    /\ extractI < Len(m_entries)
    /\ ReadEntry(m_entries[extractI + 1])
    /\ fileEntry' = extractI + 1
    /\ attempted' = Append(attempted, extractI)
    /\ extractPc' = "write"
    /\ UNCHANGED <<searchPath, foundEntry, compared, extractI, extracted, written>>
    /\ UNCHANGED missionVars

\* the rest of extractFile, and the count of extractAll
FstExtractWrite ==
    /\ extractPc = "write"
    /\ reader = "fst"
    /\ pc = "ready"
    /\ IF fileResult = <<>> /\ m_entries[extractI + 1].uncompressedSize > 0
       THEN UNCHANGED <<extracted, written>>
       ELSE \E outcome \in FileOutcomes(fileResult, TRUE) :
               IF outcome = "written"
               THEN /\ extracted' = extracted + 1
                    /\ written' = written \cup {extractI}
               ELSE UNCHANGED <<extracted, written>>
    /\ extractI' = extractI + 1
    /\ extractPc' = "loop"
    /\ UNCHANGED <<attempted, fstVars, packetIndex, packetResult, loaderVars>>
    /\ UNCHANGED <<lzVars, streamVars, shapeVars, pc>>
    /\ UNCHANGED missionVars

\* PakReader::extractAll up to its loop: the output directory is created
PakExtractAll ==
    /\ pc = "ready"
    /\ reader = "pak"
    /\ extractPc = "idle"
    /\ \E created \in (IF ~m_file.open \/ m_entries = <<>> THEN {FALSE} ELSE BOOLEAN) :
          extractPc' = IF created THEN "loop" ELSE "refused"
    /\ extractI' = 0
    /\ extracted' = 0
    /\ UNCHANGED <<attempted, written, fstVars, packetIndex, packetResult, loaderVars>>
    /\ UNCHANGED <<lzVars, streamVars, shapeVars, pc>>
    /\ UNCHANGED missionVars

\* a null packet is passed over
PakExtractSkip ==
    /\ extractPc = "loop"
    /\ reader = "pak"
    /\ pc = "ready"
    /\ extractI < Len(m_entries)
    /\ m_entries[extractI + 1].storageType = NUL
    /\ extractI' = extractI + 1
    /\ UNCHANGED <<extractPc, extracted, attempted, written, fstVars, packetIndex,
                   packetResult, loaderVars>>
    /\ UNCHANGED <<lzVars, streamVars, shapeVars, pc>>
    /\ UNCHANGED missionVars

\* auto data = readPacket(i)
PakExtractRead ==
    /\ extractPc = "loop"
    /\ reader = "pak"
    /\ extractI < Len(m_entries)
    /\ m_entries[extractI + 1].storageType # NUL
    /\ ReadPacket(extractI)
    /\ attempted' = Append(attempted, extractI)
    /\ extractPc' = "write"
    /\ UNCHANGED <<extractI, extracted, written, fstVars, loaderVars>>
    /\ UNCHANGED missionVars

\* the packet is written to its file and counted
PakExtractWrite ==
    /\ extractPc = "write"
    /\ reader = "pak"
    /\ pc = "ready"
    /\ IF packetResult = <<>> /\ m_entries[extractI + 1].unpackedSize # U32Of(0)
       THEN UNCHANGED <<extracted, written>>
       ELSE \E outcome \in FileOutcomes(packetResult, FALSE) :
               IF outcome = "written"
               THEN /\ extracted' = extracted + 1
                    /\ written' = written \cup {extractI}
               ELSE UNCHANGED <<extracted, written>>
    /\ extractI' = extractI + 1
    /\ extractPc' = "loop"
    /\ UNCHANGED <<attempted, fstVars, packetIndex, packetResult, loaderVars>>
    /\ UNCHANGED <<lzVars, streamVars, shapeVars, pc>>
    /\ UNCHANGED missionVars

\* the loop of extractAll has ended: return extracted
ExtractReturn ==
    /\ extractPc = "loop"
    /\ pc = "ready"
    /\ extractI >= Len(m_entries)
    /\ extractPc' = "returned"
    /\ UNCHANGED <<extractI, extracted, attempted, written, fstVars, packetIndex,
                   packetResult, loaderVars>>
    /\ UNCHANGED <<lzVars, streamVars, shapeVars, pc>>
    /\ UNCHANGED missionVars

(***************************************************************************)
(* shape_reader.cpp: the readers a loader keeps in its vectors             *)
(***************************************************************************)
\* ShapeReader() = default
NewShapeReader ==
    [m_data |-> Plain(<<>>), m_size |-> 0, m_loaded |-> FALSE, m_headerOffset |-> 0,
     m_version |-> <<>>, m_shapeCount |-> 0, m_offsets |-> <<>>]

\* r.load(data, size) on the buffer b: the members it leaves and what it
\* returns; g is the byte an out-of-bounds read finds
LoadedReader(r, b, g) ==
    LET size == BufSize(b)
        headerOffset == IF IsMechLayout(b) THEN 7 ELSE 0
        shapeCount == ReadU32(b, headerOffset + 4, g)
        tableStart == headerOffset + 8
        tableSize == tableStart + shapeCount * 8
        r1 == [r EXCEPT !.m_data = b, !.m_size = size]
        r2 == [r1 EXCEPT !.m_version = [k \in 1..4 |-> ByteAt(b, headerOffset + k - 1)],
                         !.m_headerOffset = headerOffset,
                         !.m_shapeCount = shapeCount]
    IN
    IF size < 8 THEN [ok |-> FALSE, reader |-> r]
    ELSE IF ~IsMechLayout(b) /\ ~IsStandardLayout(b) THEN [ok |-> FALSE, reader |-> r1]
    ELSE IF shapeCount > MaxShapeCount \/ size < tableSize
         THEN [ok |-> FALSE, reader |-> r2]
    ELSE [ok |-> TRUE,
          reader |-> [r2 EXCEPT !.m_offsets = [k \in 1..shapeCount |->
                                                  ReadU32(b, tableStart + (k - 1) * 8, g)],
                                !.m_loaded = TRUE]]

\* the bytes load may read past the end of the data d
LoadOob(d) == OobChoice(IsMechLayout(Plain(d)) /\ Len(d) < 15)

\* MechShapeReader() = default
NewMechShapeReader ==
    [m_data |-> <<>>, m_size |-> 0, m_loaded |-> FALSE, m_width |-> 0, m_height |-> 0,
     m_headerOffset |-> 6, m_version |-> <<>>]

\* "1.10" at data[k..k+3]
VersionAt(d, k) ==
    d[k + 1] = 49 /\ d[k + 2] = 46 /\ d[k + 3] = 49 /\ d[k + 4] = 48

\* MechShapeReader::load(data, size) on the bytes d
LoadedMechShape(r, d) ==
    LET size == Len(d)
        headerOffset == IF size > 11 /\ VersionAt(d, 7) THEN 7 ELSE 6
        width == d[3] * 256 + d[4]
        height == d[5] * 256 + d[6]
        r1 == [r EXCEPT !.m_version = <<49, 46, 49, 48>>, !.m_headerOffset = headerOffset]
    IN
    IF size < 15 THEN [ok |-> FALSE, reader |-> r]
    ELSE IF ~(size > 11 /\ VersionAt(d, 7)) /\ ~(size > 10 /\ VersionAt(d, 6))
         THEN [ok |-> FALSE, reader |-> r]
    ELSE IF width = 0 \/ height = 0 \/ width > 256 \/ height > 256
         THEN [ok |-> FALSE, reader |-> r1]
    ELSE [ok |-> TRUE,
          reader |-> [r1 EXCEPT !.m_data = d, !.m_size = size, !.m_width = width,
                                !.m_height = height, !.m_loaded = TRUE]]

(***************************************************************************)
(* nested_pak_reader.cpp: MechSpriteSet                                    *)
(***************************************************************************)
\* MechSpriteSet() = default
NewMechSpriteSet == [m_frameData |-> <<>>, m_frames |-> <<>>, m_mechFrames |-> <<>>]

\* isLoaded()
MechIsLoaded(s) == s.m_frames # <<>> \/ s.m_mechFrames # <<>>

\* the most packets load accepts, the frames after which it stops, and the
\* size from which it takes an unpacked size for corrupt
MechMaxPackets == 10000
MechMaxFrames == 30
MechMaxUnpacked == 10485760

\* uint32_t numPackets = (firstOffset & 0x1FFFFFFF) / 4 - 2
MechCount(d) == PakCount(ExtractOffset(Slice(d, 4, 4)))

\* the checks of load before it clears the set: the data holds the magic, a
\* packet count in 1..10000 and the whole seek table
MechHeaderOk(d) ==
    /\ Len(d) >= 8
    /\ Slice(d, 0, 4) = <<206, 250, 237, 254>>
    /\ ~U32Gt(MechCount(d), MechMaxPackets)
    /\ SizeOf(MechCount(d)) # 0
    /\ 8 + SizeOf(MechCount(d)) * 4 <= Len(d)

\* seekTable[i]
MechWord(d, i) == Slice(d, 8 + 4 * i, 4)

\* packetSize of the i-th packet of n
MechPacketSize(d, i, n) ==
    LET offset == ExtractOffset(MechWord(d, i))
        nextOffset == ExtractOffset(MechWord(d, i + 1)) IN
    IF i + 1 < n /\ nextOffset > offset /\ nextOffset <= Len(d)
    THEN nextOffset - offset
    ELSE Len(d) - offset

\* the i-th packet is passed over before anything is read from it
MechSkipped(d, i, n) ==
    LET offset == ExtractOffset(MechWord(d, i))
        type == ExtractType(MechWord(d, i)) IN
    \/ type = NUL
    \/ offset >= Len(d)
    \/ MechPacketSize(d, i, n) = 0
    \/ offset + MechPacketSize(d, i, n) > Len(d)
    \/ type \notin {RAW, LZD}
    \/ type = LZD /\ MechPacketSize(d, i, n) < 4

\* packetData[0 .. packetSize)
MechPacketBytes(d, i, n) ==
    Slice(d, ExtractOffset(MechWord(d, i)), MechPacketSize(d, i, n))

\* the rest of an iteration of load once decompressed is filled: the set
\* after it and whether a frame was added
AddFrame(s, d, g) ==
    LET mech == LoadedMechShape(NewMechShapeReader, d)
        table == LoadedReader(NewShapeReader, Plain(d), g) IN
    IF d = <<>> THEN [set |-> s, added |-> FALSE]
    ELSE IF mech.ok
    THEN [set |-> [s EXCEPT !.m_frameData = Append(@, d),
                            !.m_mechFrames = Append(@, LoadedMechShape(mech.reader, d).reader)],
          added |-> TRUE]
    ELSE IF s.m_mechFrames = <<>> /\ table.ok
    THEN [set |-> [s EXCEPT !.m_frameData = Append(@, d),
                            !.m_frames = Append(@, table.reader)],
          added |-> TRUE]
    ELSE [set |-> s, added |-> FALSE]

\* getFrame(index) of the set s: the reader, or Null
Null == [null |-> TRUE]

MechGetFrame(s, index) ==
    IF index >= Len(s.m_frames) THEN Null ELSE s.m_frames[index + 1]

\* what the steps of a loader leave alone in the archive handle
loaderKeeps == <<reader, openable, fileBytes, m_file, m_entries, m_fileSize, openResult, reqOffset,
                 reqSize, readResult, packetIndex, packetResult, fstVars, extractVars, missionVars>>

\* decompressed is filled: the frame is added, and load goes on to the next
\* packet or stops at 30 frames
MechAdd(d, n) ==
    \E g \in LoadOob(d) :
       LET a == AddFrame(m_mechSprites[loaderI + 1], d, g)
           count == IF a.added THEN successCount + 1 ELSE successCount IN
       /\ m_mechSprites' = [m_mechSprites EXCEPT ![loaderI + 1] = a.set]
       /\ successCount' = count
       /\ mechI' = IF a.added /\ a.set.m_mechFrames # <<>> /\ count >= MechMaxFrames
                   THEN n ELSE mechI + 1

\* one iteration of the loop of MechSpriteSet::load, up to its end or to the
\* call of lzDecompress
MechPacket ==
    /\ loaderPc = "mechLoop"
    /\ pc = "ready"
    /\ mechI < SizeOf(MechCount(mechData))
    /\ LET n == SizeOf(MechCount(mechData))
           packet == MechPacketBytes(mechData, mechI, n)
           uncompSize == LE32(packet) IN
       IF MechSkipped(mechData, mechI, n)
       THEN /\ mechI' = mechI + 1
            /\ UNCHANGED <<m_mechSprites, successCount, loaderPc, pc, call, src,
                           destLen, useZlib, dest>>
       ELSE IF ExtractType(MechWord(mechData, mechI)) = RAW
       THEN /\ MechAdd(packet, n)
            /\ UNCHANGED <<loaderPc, pc, call, src, destLen, useZlib, dest>>
       ELSE IF uncompSize > 0 /\ uncompSize < MechMaxUnpacked
       THEN /\ call' = "lzDecompress"
            /\ src' = Slice(packet, 4, Len(packet) - 4)
            /\ destLen' = uncompSize
            /\ useZlib' = FALSE
            /\ dest' = <<>>
            /\ pc' = "lzEnter"
            /\ loaderPc' = "mechLz"
            /\ UNCHANGED <<m_mechSprites, successCount, mechI>>
       ELSE /\ mechI' = mechI + 1
            /\ UNCHANGED <<m_mechSprites, successCount, loaderPc, pc, call, src,
                           destLen, useZlib, dest>>
    /\ UNCHANGED <<loaderI, loaderResult, loadedCount, mechData, m_packetData, m_tables>>
    /\ UNCHANGED <<enc, packed, plain, hashTable, codeMask, maxIndex, freeIndex,
                   oldChain, oldSuffix, bitCount, srcPos, bitBuffer, bitsInBuffer, destPos,
                   charStack, stackPos, code, newChain, lzRet, actualSize, lzOut, zlibOut,
                   result>>
    /\ UNCHANGED <<loaderKeeps, shapeVars>>

\* lzDecompress has returned to load: decompressed is cut to the size written
MechLzReturn ==
    /\ loaderPc = "mechLz"
    /\ pc = "done"
    /\ call = "lzDecompress"
    /\ MechAdd(BufferPrefix(dest, lzRet), SizeOf(MechCount(mechData)))
    /\ loaderPc' = "mechLoop"
    /\ pc' = "ready"
    /\ UNCHANGED <<loaderI, loaderResult, loadedCount, mechData, m_packetData, m_tables>>
    /\ UNCHANGED <<lzVars, loaderKeeps, shapeVars>>

(***************************************************************************)
(* nested_pak_reader.cpp: NestedPakReader                                  *)
(***************************************************************************)
\* the outer packets open looks at
NestedMaxToLoad == 3

\* open: the archive is opened and one empty set is made per packet
NestedOpen ==
    /\ loaderPc = "idle"
    /\ OpenPak
    /\ IF openResult'
       THEN /\ m_mechSprites' = [k \in 1..Len(m_entries') |-> NewMechSpriteSet]
            /\ loaderPc' = "nestedLoop"
       ELSE /\ loaderPc' = "returned"
            /\ UNCHANGED m_mechSprites
    /\ loaderI' = 0
    /\ loadedCount' = 0
    /\ loaderResult' = FALSE
    /\ UNCHANGED <<mechData, mechI, successCount, m_packetData, m_tables>>
    /\ UNCHANGED <<packetIndex, packetResult, fstVars, extractVars, missionVars, lzVars, shapeVars>>

\* std::vector<uint8_t> packetData = m_pak.readPacket(i)
NestedReadPacket ==
    /\ loaderPc = "nestedLoop"
    /\ loaderI < Min(Len(m_entries), NestedMaxToLoad)
    /\ ReadPacket(loaderI)
    /\ loaderPc' = "nestedPacket"
    /\ UNCHANGED <<fstVars, extractVars, missionVars>>
    /\ UNCHANGED <<loaderI, loaderResult, m_mechSprites, loadedCount, mechData, mechI,
                   successCount, m_packetData, m_tables>>

\* the loop of open has ended without a set loaded
NestedReturn ==
    /\ loaderPc = "nestedLoop"
    /\ pc = "ready"
    /\ loaderI >= Min(Len(m_entries), NestedMaxToLoad)
    /\ loaderResult' = (loadedCount > 0)
    /\ loaderPc' = "returned"
    /\ UNCHANGED <<loaderI, m_mechSprites, loadedCount, mechData, mechI, successCount,
                   m_packetData, m_tables>>
    /\ UNCHANGED <<lzVars, loaderKeeps, shapeVars, pc>>

\* readPacket has returned: an empty packet is passed over, any other is
\* handed to m_mechSprites[i].load, which checks its header
NestedPacket ==
    /\ loaderPc = "nestedPacket"
    /\ pc = "ready"
    /\ IF packetResult # <<>> /\ MechHeaderOk(packetResult)
       THEN /\ mechData' = packetResult
            /\ mechI' = 0
            /\ successCount' = 0
            /\ m_mechSprites' = [m_mechSprites EXCEPT ![loaderI + 1].m_frameData = <<>>,
                                                      ![loaderI + 1].m_frames = <<>>]
            /\ loaderPc' = "mechLoop"
            /\ UNCHANGED loaderI
       ELSE /\ loaderI' = loaderI + 1
            /\ loaderPc' = "nestedLoop"
            /\ UNCHANGED <<mechData, mechI, successCount, m_mechSprites>>
    /\ UNCHANGED <<loaderResult, loadedCount, m_packetData, m_tables>>
    /\ UNCHANGED <<lzVars, loaderKeeps, shapeVars, pc>>

\* load has gone through its packets and returns isLoaded(); open stops at
\* the first set that loaded
MechReturn ==
    /\ loaderPc = "mechLoop"
    /\ pc = "ready"
    /\ mechI >= SizeOf(MechCount(mechData))
    /\ IF MechIsLoaded(m_mechSprites[loaderI + 1])
       THEN /\ loadedCount' = loadedCount + 1
            /\ loaderResult' = TRUE
            /\ loaderPc' = "returned"
            /\ UNCHANGED loaderI
       ELSE /\ loaderI' = loaderI + 1
            /\ loaderPc' = "nestedLoop"
            /\ UNCHANGED <<loadedCount, loaderResult>>
    /\ UNCHANGED <<m_mechSprites, mechData, mechI, successCount, m_packetData, m_tables>>
    /\ UNCHANGED <<lzVars, loaderKeeps, shapeVars, pc>>

\* getMech(index): the set, or Null
GetMech(index) ==
    IF index >= Len(m_mechSprites) THEN Null
    ELSE IF ~MechIsLoaded(m_mechSprites[index + 1]) THEN Null
    ELSE m_mechSprites[index + 1]

(***************************************************************************)
(* shape_reader.cpp: ShapePackReader                                       *)
(***************************************************************************)
\* the first 4 bytes are digits or dots
LooksLikeShapeTable(d) ==
    \A j \in 1..4 : d[j] = 46 \/ (d[j] >= 48 /\ d[j] <= 57)

\* loadFromPak: the archive is opened; it returns false when that fails or
\* the archive holds no packets
PackOpen ==
    /\ loaderPc = "idle"
    /\ OpenPak
    /\ IF openResult' /\ m_entries' # <<>>
       THEN loaderPc' = "packLoop"
       ELSE loaderPc' = "returned"
    /\ loaderI' = 0
    /\ loaderResult' = FALSE
    /\ m_packetData' = <<>>
    /\ m_tables' = <<>>
    /\ UNCHANGED <<m_mechSprites, loadedCount, mechData, mechI, successCount>>
    /\ UNCHANGED <<packetIndex, packetResult, fstVars, extractVars, missionVars, lzVars, shapeVars>>

\* std::vector<uint8_t> data = pak.readPacket(i)
PackReadPacket ==
    /\ loaderPc = "packLoop"
    /\ loaderI < Len(m_entries)
    /\ ReadPacket(loaderI)
    /\ loaderPc' = "packPacket"
    /\ UNCHANGED <<fstVars, extractVars, missionVars>>
    /\ UNCHANGED <<loaderI, loaderResult, m_mechSprites, loadedCount, mechData, mechI,
                   successCount, m_packetData, m_tables>>

\* readPacket has returned: a packet of 8 bytes or more that looks like a
\* shape table is kept and a reader is loaded from it
PackPacket ==
    /\ loaderPc = "packPacket"
    /\ pc = "ready"
    /\ IF Len(packetResult) >= 8 /\ LooksLikeShapeTable(packetResult)
       THEN \E g \in LoadOob(packetResult) :
               /\ m_packetData' = Append(m_packetData, packetResult)
               /\ m_tables' = Append(m_tables,
                                     LoadedReader(NewShapeReader, Plain(packetResult), g).reader)
       ELSE UNCHANGED <<m_packetData, m_tables>>
    /\ loaderI' = loaderI + 1
    /\ loaderPc' = "packLoop"
    /\ UNCHANGED <<loaderResult, m_mechSprites, loadedCount, mechData, mechI, successCount>>
    /\ UNCHANGED <<lzVars, loaderKeeps, shapeVars, pc>>

\* the loop has ended with a table kept: return !m_tables.empty()
PackReturn ==
    /\ loaderPc = "packLoop"
    /\ pc = "ready"
    /\ loaderI >= Len(m_entries)
    /\ m_tables # <<>>
    /\ loaderResult' = TRUE
    /\ loaderPc' = "returned"
    /\ UNCHANGED <<loaderI, m_mechSprites, loadedCount, mechData, mechI, successCount,
                   m_packetData, m_tables>>
    /\ UNCHANGED <<lzVars, loaderKeeps, shapeVars, pc>>

\* the loop has ended with no table kept: allData = pak.readPacket(0)
PackReadFirst ==
    /\ loaderPc = "packLoop"
    /\ loaderI >= Len(m_entries)
    /\ m_tables = <<>>
    /\ ReadPacket(0)
    /\ loaderPc' = "packFirst"
    /\ UNCHANGED <<fstVars, extractVars, missionVars>>
    /\ UNCHANGED <<loaderI, loaderResult, m_mechSprites, loadedCount, mechData, mechI,
                   successCount, m_packetData, m_tables>>

\* the first packet is tried as a table whatever it looks like, and is kept
\* only when it loads
PackFirst ==
    /\ loaderPc = "packFirst"
    /\ pc = "ready"
    /\ \E g \in LoadOob(packetResult) :
          LET t == LoadedReader(NewShapeReader, Plain(packetResult), g) IN
          IF Len(packetResult) >= 8 /\ t.ok
          THEN /\ m_packetData' = Append(m_packetData, packetResult)
               /\ m_tables' = Append(m_tables, t.reader)
               /\ loaderResult' = TRUE
          ELSE /\ loaderResult' = FALSE
               /\ UNCHANGED <<m_packetData, m_tables>>
    /\ loaderPc' = "returned"
    /\ UNCHANGED <<loaderI, m_mechSprites, loadedCount, mechData, mechI, successCount>>
    /\ UNCHANGED <<lzVars, loaderKeeps, shapeVars, pc>>

\* getTable(index): the reader, or Null
GetTable(index) ==
    IF index >= Len(m_tables) THEN Null ELSE m_tables[index + 1]

\* getTotalShapeCount(): the sum of getShapeCount() over the tables from the
\* k-th on
RECURSIVE TotalShapeCountFrom(_)
TotalShapeCountFrom(k) ==
    IF k > Len(m_tables) THEN 0
    ELSE m_tables[k].m_shapeCount + TotalShapeCountFrom(k + 1)

GetTotalShapeCount == TotalShapeCountFrom(1)

(***************************************************************************)
(* The state of a component that is not in use                             *)
(***************************************************************************)
LzLocalsIdle ==
    /\ dest = <<>>
    /\ hashTable = <<>>
    /\ codeMask = 0
    /\ maxIndex = 0
    /\ freeIndex = 0
    /\ oldChain = 0
    /\ oldSuffix = 0
    /\ bitCount = 0
    /\ srcPos = 0
    /\ bitBuffer = 0
    /\ bitsInBuffer = U32Of(0)
    /\ destPos = 0
    /\ charStack = <<>>
    /\ stackPos = 0
    /\ code = 0
    /\ newChain = 0
    /\ lzRet = 0
    /\ actualSize = 0
    /\ lzOut = <<>>
    /\ zlibOut = NoZlib
    /\ result = <<>>

LoaderIdle ==
    /\ loaderPc = "idle"
    /\ loaderI = 0
    /\ loaderResult = FALSE
    /\ m_mechSprites = <<>>
    /\ loadedCount = 0
    /\ mechData = <<>>
    /\ mechI = 0
    /\ successCount = 0
    /\ m_packetData = <<>>
    /\ m_tables = <<>>

FstIdle ==
    /\ searchPath = <<>>
    /\ foundEntry = -1
    /\ compared = {}
    /\ fileEntry = 0
    /\ fileResult = <<>>

ExtractIdle ==
    /\ extractPc = "idle"
    /\ extractI = 0
    /\ extracted = 0
    /\ attempted = <<>>
    /\ written = {}

\* Mission() = default, no call under way
MissionIdle ==
    /\ missionPc = "idle"
    /\ m_state = "NotLoaded"
    /\ m_elapsedTime = 0
    /\ m_timeLimit = 0
    /\ m_objectives = <<>>
    /\ m_triggers = <<>>
    /\ m_mechs = <<>>
    /\ stateChanges = <<>>

ArchiveIdle ==
    /\ packetIndex = -1
    /\ packetResult = <<>>
    /\ LoaderIdle
    /\ FstIdle
    /\ ExtractIdle
    /\ MissionIdle

StreamIdle ==
    /\ ArchiveIdle
    /\ reader = "none"
    /\ fileBytes = <<>>
    /\ openable = TRUE
    /\ m_file = ClosedStream
    /\ m_entries = <<>>
    /\ m_fileSize = 0
    /\ openResult = FALSE
    /\ reqOffset = 0
    /\ reqSize = 0
    /\ readResult = <<>>

LzIdle ==
    /\ call = "none"
    /\ src = <<>>
    /\ destLen = 0
    /\ useZlib = FALSE
    /\ packed = FALSE
    /\ plain = <<>>
    /\ enc = EncIdle
    /\ LzLocalsIdle

ReaderFresh ==
    /\ m_data = Plain(<<>>)
    /\ m_size = 0
    /\ m_loaded = FALSE
    /\ m_headerOffset = 0
    /\ m_version = <<>>
    /\ m_shapeCount = 0
    /\ m_offsets = <<>>
    /\ loadSize = 0
    /\ loadResult = FALSE
    /\ loadReads = {}
    /\ shapeIndex = 0
    /\ header = NoHeader
    /\ shapeData = EmptyShape
    /\ rleOffset = 0
    /\ srcSize = 0
    /\ rleSrcPos = 0
    /\ rleX = 0
    /\ rleY = 0
    /\ rleMarker = 0
    /\ rleCount = 0
    /\ rleValue = 0
    /\ rleI = 0
    /\ rleWrites = {}

ShapeIdle ==
    /\ tableBuf = Plain(<<>>)
    /\ ReaderFresh

(***************************************************************************)
(* Archive files the readers are opened on                                 *)
(***************************************************************************)
\* byte i of a generated file where it is not directory: all different
DataByte(i) == (i % 251) + 1

\* one 262-byte record of the flat archive directory
FstRecord(e) ==
    LE32Bytes(e.dataOffset) \o LE32Bytes(e.compressedSize)
        \o LE32Bytes(e.uncompressedSize)
        \o [i \in 1..MAX_FILENAME_SIZE |-> IF i <= Len(e.path) THEN e.path[i] ELSE 0]

\* a flat archive: the count, one record per entry, then len bytes in all
FstFile(count, recs, len) ==
    LET head == LE32Bytes(count)
                  \o (IF Len(recs) >= 1 THEN FstRecord(recs[1]) ELSE <<>>)
                  \o (IF Len(recs) >= 2 THEN FstRecord(recs[2]) ELSE <<>>) IN
    [i \in 1..len |-> IF i <= Len(head) THEN head[i] ELSE DataByte(i - 1)]

\* "A\b.T " stored at 266, 3 bytes, not compressed
FstEntryA == [dataOffset |-> 266, compressedSize |-> 0, uncompressedSize |-> 3,
              path |-> <<65, 92, 98, 46, 84, 32>>]

FstFiles ==
    { FstFile(0, <<>>, 4 + MaxData),                \* no entries
      FstFile(1, <<FstEntryA>>, 266 + MaxData),     \* one entry
      FstFile(1, <<FstEntryA>>, 200),               \* directory cut short
      FstFile(FstMaxEntries + 1, <<>>, 4 + MaxData),   \* absurd count
      <<>> }                                        \* empty file

\* the 4 bytes of a seek table word
PakWord(type, offset) ==
    <<offset % 256, (offset \div 256) % 256, (offset \div 65536) % 256,
      type * 32 + (offset \div 16777216)>>

\* a seek-table archive: magic 0xFEEDFACE, first packet offset, the words,
\* then data up to len bytes in all
PakFile(first, words, len) ==
    LET head == <<206, 250, 237, 254>> \o LE32Bytes(first)
                  \o (IF Len(words) >= 1 THEN PakWord(words[1].type, words[1].offset) ELSE <<>>)
                  \o (IF Len(words) >= 2 THEN PakWord(words[2].type, words[2].offset) ELSE <<>>)
                  \o (IF Len(words) >= 3 THEN PakWord(words[3].type, words[3].offset) ELSE <<>>) IN
    [i \in 1..len |-> IF i <= Len(head) THEN head[i] ELSE DataByte(i - 1)]

PakTypes == {RAW, FWF, LZD, HF, ZLIB, NUL}

\* packet offsets of a generated archive whose data starts at d: the start
\* of the data, inside it, 2 bytes before the end of the file, past the end
PakOffsets(d) == {d, d + 4, d + MaxData - 2, d + MaxData + 3}

PakWords(n) == [1..n -> [type : PakTypes, offset : PakOffsets(8 + 4 * n)]]

PakFiles ==
    UNION {{PakFile(8 + 4 * n, w, 8 + 4 * n + MaxData) : w \in PakWords(n)} :
             n \in 0..MaxPackets}
      \cup { PakFile(4, <<>>, 8 + MaxData),              \* count below zero
             PakFile(8 + MaxData + 4, <<>>, 8 + MaxData), \* first offset past the end
             PakFile(16, <<>>, 10),                      \* seek table cut short
             <<206, 250, 237>> }                         \* header cut short

\* arguments of the byte-range reads tried on a file of len bytes
ReadOffsets(len) == {0, 1, len - 2, len, len + 1} \cap Nat

ReadSizes == {0, 1, 2, 4}

(***************************************************************************)
(* Buffers the shape reader is loaded with                                 *)
(***************************************************************************)
\* the four bytes of an int32_t, least significant first
I32Bytes(v) ==
    IF v >= 0 THEN LE32Bytes(v)
    ELSE LET u == LE32Bytes(-(v + 1)) IN [k \in 1..4 |-> 255 - u[k]]

\* "1.10" and "2.00"
Tag110 == <<49, 46, 49, 48>>
Tag200 == <<50, 46, 48, 48>>

\* the prefix of the mech sprite layout
MechPrefix == <<1, 0, 0, 2, 0, 2, 0>>

\* a ShapeHeader with hotspot (3, -2)
HeaderBytes(xmin, ymin, xmax, ymax) ==
    I32Bytes(0) \o <<254, 255, 3, 0>> \o I32Bytes(xmin) \o I32Bytes(ymin)
    \o I32Bytes(xmax) \o I32Bytes(ymax)

\* a table of one shape behind an optional prefix
Table1(prefix, hdr, stream) ==
    Plain(prefix \o Tag110 \o LE32Bytes(1) \o LE32Bytes(Len(prefix) + 16)
          \o <<0, 0, 0, 0>> \o hdr \o stream)

\* a table of two shapes of 2 x 2 pixels
Table2(s1, s2) ==
    Plain(Tag110 \o LE32Bytes(2) \o LE32Bytes(24) \o <<0, 0, 0, 0>>
          \o LE32Bytes(48 + Len(s1)) \o <<0, 0, 0, 0>>
          \o HeaderBytes(0, 0, 1, 1) \o s1 \o HeaderBytes(0, 0, 1, 1) \o s2)

\* byte values of the RLE streams: end of line, skip, runs of one and two,
\* literals of one and two
RleBytes == {0, 1, 2, 3, 4, 5}

\* width and height of the shapes the streams are decoded into
RleDims == {<<1, 1>>, <<2, 2>>, <<3, 2>>}

RleTables ==
    {Table1(<<>>, HeaderBytes(0, 0, d[1] - 1, d[2] - 1), s) :
         d \in RleDims, s \in SeqsUpTo(RleBytes, MaxRleLen)}
    \cup {Table1(MechPrefix, HeaderBytes(0, 0, 1, 1), s) : s \in SeqsUpTo(RleBytes, 2)}
    \cup {Table2(s1, s2) : s1 \in SeqsUpTo(RleBytes, 1), s2 \in SeqsUpTo(RleBytes, 2)}

\* <<min, max>> of a header: extents 0, 1, 1024, 1025, -1, 2, and two pairs
\* whose difference does not fit an int
ExtentPairs == {<<0, -1>>, <<0, 0>>, <<0, 1023>>, <<0, 1024>>, <<5, 3>>, <<-3, -2>>,
                <<INT_MAX, INT_MIN>>, <<-1, INT_MAX>>}

ExtentStreams == {<<>>, <<4, 7, 0, 5, 8, 9>>}

ExtentTables ==
    {Table1(<<>>, HeaderBytes(px[1], py[1], px[2], py[2]), s) :
         px \in ExtentPairs, py \in ExtentPairs, s \in ExtentStreams}

\* the first len bytes of a sequence
Take(s, len) == [k \in 1..len |-> s[k]]

\* prefixes of every length of a header in either layout, with a good or a
\* bad version tag and a count of 0, 1 or 2
LoadHeads ==
    {prefix \o tag \o LE32Bytes(n) \o [k \in 1..16 |-> 0] :
         prefix \in {<<>>, MechPrefix, <<49, 46, 0, 0, 0, 0, 0>>},
         tag \in {Tag110, Tag200, <<0, 0, 0, 0>>},
         n \in 0..2}

LoadBuffers ==
    {Plain(Take(h, len)) : h \in LoadHeads, len \in 0..MaxLoadLen}

ShapeBuffers == RleTables \cup ExtentTables \cup LoadBuffers

\* a table of one shape of 2 x 2 pixels whose stream is a skip packet of
\* count c repeated n times and a tail
LongTable(c, n, t) ==
    [head |-> Tag110 \o LE32Bytes(1) \o LE32Bytes(16) \o <<0, 0, 0, 0>>
              \o HeaderBytes(0, 0, 1, 1),
     block |-> <<1, c>>,
     times |-> n,
     tail |-> t]

LongTables ==
    {LongTable(c, n, t) : c \in {128, 255}, n \in {1, 2, MaxSkipPackets},
                          t \in SeqsUpTo({0, 2, 3, 7}, 3)}

(***************************************************************************)
(* Seek-table archives the packets are read from                           *)
(***************************************************************************)
\* packets an archive is built of: a storage type and the bytes stored.
\* The compressed ones start with the unpacked size; <<97, 196, 4, 4>> is the
\* LZ stream of the codes 97, 98 and 257
PacketKinds ==
    { [type |-> RAW,  bytes |-> <<11, 12, 13>>],
      [type |-> RAW,  bytes |-> <<>>],
      [type |-> FWF,  bytes |-> <<21, 22>>],
      [type |-> NUL,  bytes |-> <<>>],
      [type |-> NUL,  bytes |-> <<31>>],
      [type |-> HF,   bytes |-> <<41, 42>>],
      [type |-> 5,    bytes |-> <<51>>],
      [type |-> LZD,  bytes |-> LE32Bytes(2) \o <<97, 196, 4, 4>>],
      [type |-> ZLIB, bytes |-> LE32Bytes(2) \o <<120, 1>>],
      [type |-> LZD,  bytes |-> <<1, 2>>],
      [type |-> LZD,  bytes |-> LE32Bytes(2) \o <<0, 0, 0>>] }

\* the bytes of the packets from the i-th on
RECURSIVE PacketBytesFrom(_, _)
PacketBytesFrom(ks, i) ==
    IF i > Len(ks) THEN <<>> ELSE ks[i].bytes \o PacketBytesFrom(ks, i + 1)

\* the seek table words of the packets from the i-th on, the i-th stored at
\* offset at
RECURSIVE PacketWordsFrom(_, _, _)
PacketWordsFrom(ks, i, at) ==
    IF i > Len(ks) THEN <<>>
    ELSE PakWord(ks[i].type, at) \o PacketWordsFrom(ks, i + 1, at + Len(ks[i].bytes))

\* an archive of the packets ks whose data starts gap bytes after the seek
\* table
PakArchive(ks, gap) ==
    LET first == 8 + 4 * Len(ks) IN
    <<206, 250, 237, 254>> \o LE32Bytes(first) \o PacketWordsFrom(ks, 1, first + gap)
        \o [k \in 1..gap |-> 99] \o PacketBytesFrom(ks, 1)

PakArchives ==
    UNION {{PakArchive(ks, gap) : ks \in [1..n -> PacketKinds], gap \in {0, 2}} :
             n \in 0..MaxPakEntries}
      \cup { PakFile(4, <<>>, 16),          \* count below zero
             PakFile(7, <<>>, 16),
             PakFile(9, <<>>, 16),          \* not a multiple of 4
             PakFile(20, <<>>, 16),         \* first offset past the end
             PakFile(4000012, <<>>, 16),    \* count above the ceiling
             PakFile(16, <<[type |-> RAW, offset |-> 16],
                           [type |-> RAW, offset |-> 14]>>, 18),   \* offsets going back
             PakFile(16, <<[type |-> FWF, offset |-> 17],
                           [type |-> LZD, offset |-> 30]>>, 20),   \* offset past the end
             PakFile(16, <<>>, 10),         \* seek table cut short
             <<206, 250, 237>> }            \* header cut short

(***************************************************************************)
(* Archives of archives and of shape tables the loaders are run on         *)
(***************************************************************************)
\* a shape table of version 1.10 with no shapes, and a mech frame of 2 x 2
EmptyTable == <<49, 46, 49, 48, 0, 0, 0, 0>>
MechFrame == <<0, 1, 0, 2, 0, 2, 0, 49, 46, 49, 48, 0, 0, 0, 0>>

\* EmptyTable as an LZ stream of literal codes and the end code
EmptyTableLz == <<49, 92, 196, 128, 1, 0, 0, 0, 0, 1, 1>>

\* the packets of the inner archives
InnerTable == [type |-> RAW, bytes |-> EmptyTable]
InnerMech == [type |-> RAW, bytes |-> MechFrame]
InnerJunk == [type |-> RAW, bytes |-> <<1, 2, 3>>]
InnerPacked == [type |-> LZD, bytes |-> LE32Bytes(8) \o EmptyTableLz]
InnerShort == [type |-> LZD, bytes |-> <<8, 0>>]
InnerNoSize == [type |-> LZD, bytes |-> LE32Bytes(0) \o EmptyTableLz]
InnerNull == [type |-> NUL, bytes |-> <<>>]
InnerOther == [type |-> FWF, bytes |-> EmptyTable]

\* the inner archive of one table, as an LZ stream of literal codes
InnerArchiveLz ==
    <<206, 244, 181, 243, 199, 0, 0, 0, 0, 12, 0, 0, 0, 16, 195, 69, 12, 24, 0, 0, 0,
      0, 16, 16>>

\* the packets of the outer archives
OuterKinds ==
    { [type |-> RAW,  bytes |-> PakArchive(<<InnerTable>>, 0)],
      [type |-> RAW,  bytes |-> PakArchive(<<InnerMech, InnerTable>>, 0)],
      [type |-> RAW,  bytes |-> PakArchive(<<InnerJunk, InnerPacked>>, 0)],
      [type |-> RAW,  bytes |-> PakArchive(<<InnerNull, InnerOther, InnerShort,
                                             InnerNoSize>>, 0)],
      [type |-> FWF,  bytes |-> PakArchive(<<>>, 0)],
      [type |-> RAW,  bytes |-> EmptyTable],
      [type |-> NUL,  bytes |-> <<>>],
      [type |-> LZD,  bytes |-> LE32Bytes(20) \o InnerArchiveLz],
      [type |-> LZD,  bytes |-> LE32Bytes(2) \o <<97, 196, 4, 4>>],
      [type |-> ZLIB, bytes |-> LE32Bytes(2) \o <<120, 1>>] }

\* the archives NestedPakReader::open is run on: up to MaxOuterPackets
\* packets of any kinds, one with a frame set beyond the packets open looks
\* at, and one that is no archive
NestedArchives ==
    UNION {{PakArchive(ks, 0) : ks \in [1..n -> OuterKinds]} : n \in 0..MaxOuterPackets}
      \cup { PakArchive([k \in 1..(NestedMaxToLoad + 1) |->
                            IF k <= NestedMaxToLoad
                            THEN [type |-> NUL, bytes |-> <<>>]
                            ELSE [type |-> RAW, bytes |-> PakArchive(<<InnerTable>>, 0)]], 0),
             <<206, 250, 237>> }

\* the packets of the archives of shape tables; TwoShapes is a table of two
\* shapes without their data, Truncated announces 5 shapes and holds none,
\* Dotted passes for a version and is no table
TwoShapes == <<49, 46, 49, 48, 2, 0, 0, 0, 24, 0, 0, 0, 0, 0, 0, 0, 24, 0, 0, 0, 0, 0, 0, 0>>
Truncated == <<49, 46, 49, 48, 5, 0, 0, 0>>
Dotted == <<46, 46, 46, 46, 0, 0, 0, 0>>

TableKinds ==
    { [type |-> RAW,  bytes |-> EmptyTable],
      [type |-> RAW,  bytes |-> TwoShapes],
      [type |-> FWF,  bytes |-> Truncated],
      [type |-> RAW,  bytes |-> Dotted],
      [type |-> RAW,  bytes |-> <<1, 2, 3>>],
      [type |-> RAW,  bytes |-> <<120, 46, 49, 48, 0, 0, 0, 0>>],
      [type |-> RAW,  bytes |-> <<49, 46, 120, 120, 0, 0, 0, 0>>],
      [type |-> NUL,  bytes |-> <<>>],
      [type |-> LZD,  bytes |-> LE32Bytes(8) \o EmptyTableLz],
      [type |-> LZD,  bytes |-> LE32Bytes(2) \o <<97, 196, 4, 4>>],
      [type |-> ZLIB, bytes |-> LE32Bytes(2) \o <<120, 1>>] }

\* the archives ShapePackReader::loadFromPak is run on
TableArchives ==
    UNION {{PakArchive(ks, 0) : ks \in [1..n -> TableKinds]} : n \in 0..MaxTablePackets}
      \cup { <<206, 250, 237>> }

(***************************************************************************)
(* Flat archives with paths and payloads                                   *)
(***************************************************************************)
\* the entries of the flat archives: the path as stored, the payload, the
\* two sizes of the record, and whether the record points past the end of
\* the file.  "A\b.T " and "a/B.t" fold to one path; "c" holds ten letters
\* compressed; "d" lies outside the file; "e" is empty; "ab" is stored
\* with both sizes equal
\* the letter a ten times as an LZ stream: the codes 97, 258, 259, 260 and
\* the end code
TenLettersLz == <<97, 4, 14, 36, 24, 16>>

FstKinds ==
    { [path |-> <<65, 92, 98, 46, 84, 32>>, bytes |-> <<11, 12, 13>>,
       compressedSize |-> 0, uncompressedSize |-> 3, outside |-> FALSE],
      [path |-> <<97, 47, 66, 46, 116>>, bytes |-> <<21, 22>>,
       compressedSize |-> 0, uncompressedSize |-> 2, outside |-> FALSE],
      [path |-> <<99>>, bytes |-> TenLettersLz,
       compressedSize |-> 6, uncompressedSize |-> 10, outside |-> FALSE],
      [path |-> <<100>>, bytes |-> <<>>,
       compressedSize |-> 0, uncompressedSize |-> 3, outside |-> TRUE],
      [path |-> <<101>>, bytes |-> <<>>,
       compressedSize |-> 0, uncompressedSize |-> 0, outside |-> FALSE],
      [path |-> <<97, 98>>, bytes |-> <<41, 42>>,
       compressedSize |-> 2, uncompressedSize |-> 2, outside |-> FALSE] }

\* the directory records of the entries from the i-th on, the i-th stored
\* at offset at
RECURSIVE FstRecordsFrom(_, _, _)
FstRecordsFrom(ks, i, at) ==
    IF i > Len(ks) THEN <<>>
    ELSE FstRecord([dataOffset |-> IF ks[i].outside THEN at + 1000 ELSE at,
                    compressedSize |-> ks[i].compressedSize,
                    uncompressedSize |-> ks[i].uncompressedSize,
                    path |-> ks[i].path])
           \o FstRecordsFrom(ks, i + 1, at + Len(ks[i].bytes))

\* a flat archive of the entries ks
FstArchive(ks) ==
    LE32Bytes(Len(ks)) \o FstRecordsFrom(ks, 1, 4 + 262 * Len(ks))
        \o PacketBytesFrom(ks, 1)

FstArchives ==
    UNION {{FstArchive(ks) : ks \in [1..n -> FstKinds]} : n \in 0..MaxFstEntries}
      \cup { <<1, 0, 0>> }

\* the paths looked up: "A\b.T", "a/b.t", "A/B.T ", "c", "C", "d", "e", "ab",
\* "zz" and ""
LookupPaths ==
    { <<65, 92, 98, 46, 84>>, <<97, 47, 98, 46, 116>>, <<65, 47, 66, 46, 84, 32>>,
      <<99>>, <<67>>, <<100>>, <<101>>, <<97, 98>>, <<122, 122>>, <<>> }

(***************************************************************************)
(* Specification of the archive handle                                     *)
(***************************************************************************)
InitStream ==
    /\ \/ reader = "fst" /\ fileBytes \in FstFiles
       \/ reader = "pak" /\ fileBytes \in PakFiles
    /\ openable = TRUE
    /\ m_file = ClosedStream
    /\ m_entries = <<>>
    /\ m_fileSize = 0
    /\ openResult = FALSE
    /\ reqOffset = 0
    /\ reqSize = 0
    /\ readResult = <<>>
    /\ ArchiveIdle
    /\ LzIdle
    /\ ShapeIdle
    /\ pc = "closed"

NextStream ==
    \/ FstOpen
    \/ PakOpen
    \/ \E offset \in ReadOffsets(Len(fileBytes)), size \in ReadSizes :
          FstReadRawData(offset, size)
    \/ \E offset \in ReadOffsets(Len(fileBytes)), size \in ReadSizes :
          PakReadRawData(offset, size)

SpecStream == InitStream /\ [][NextStream]_vars

(***************************************************************************)
(* Specification of the decompressor                                       *)
(***************************************************************************)
\* raw source streams handed to lzDecompress or to decompress
InitLZ ==
    /\ packed = FALSE
    /\ plain = <<>>
    /\ call \in {"lzDecompress", "decompress"}
    /\ src \in SeqsUpTo(SrcBytes, MaxSrcLen)
    /\ destLen \in 0..MaxDestLen
    /\ useZlib \in (IF call = "decompress" THEN BOOLEAN ELSE {FALSE})
    /\ enc = EncIdle
    /\ LzLocalsIdle
    /\ StreamIdle
    /\ ShapeIdle
    /\ pc = IF call = "lzDecompress" THEN "lzEnter" ELSE "decompress"

LzSteps ==
    \/ LzEnter
    \/ LzFirst
    \/ LzLoop
    \/ LzChain
    \/ LzEmit
    \/ LzInsert

NextLZ ==
    \/ Decompress
    \/ DecompressZlib
    \/ DecompressFallback
    \/ DecompressFinish
    \/ LzSteps

SpecLZ == InitLZ /\ [][NextLZ]_vars

\* a text is compressed and the stream is handed to decompress with the
\* length of the text as expected size
InitRoundTrip ==
    /\ packed = TRUE
    /\ plain \in Texts
    /\ call = "decompress"
    /\ src = <<>>
    /\ destLen = Len(plain)
    /\ useZlib = FALSE
    /\ enc = EncIdle
    /\ LzLocalsIdle
    /\ StreamIdle
    /\ ShapeIdle
    /\ pc = "compress"

NextRoundTrip ==
    \/ CompressStep
    \/ CompressEnd
    \/ Decompress
    \/ DecompressFallback
    \/ DecompressFinish
    \/ LzSteps

SpecRoundTrip == InitRoundTrip /\ [][NextRoundTrip]_vars

(***************************************************************************)
(* Specification of the shape reader: a fresh ShapeReader, the buffer its  *)
(* caller holds, and load and decodeShape calls in any order               *)
(***************************************************************************)
InitShape ==
    /\ tableBuf \in ShapeBuffers
    /\ ReaderFresh
    /\ LzIdle
    /\ StreamIdle
    /\ pc = "shapeIdle"

NextShape ==
    \/ ShapeLoad(tableBuf)
    \/ \E idx \in 0..MaxShapeIndex : DecodeShape(idx)
    \/ RleSteps

SpecShape == InitShape /\ [][NextShape]_vars

\* the same on tables whose stream is megabytes of skip packets
InitShapeLong ==
    /\ tableBuf \in LongTables
    /\ ReaderFresh
    /\ LzIdle
    /\ StreamIdle
    /\ pc = "shapeIdle"

SpecShapeLong == InitShapeLong /\ [][NextShape]_vars

(***************************************************************************)
(* Specification of the seek-table archive: open, then readPacket calls of *)
(* any indices                                                             *)
(***************************************************************************)
InitPak ==
    /\ reader = "pak"
    /\ fileBytes \in PakArchives
    /\ openable = TRUE
    /\ m_file = ClosedStream
    /\ m_entries = <<>>
    /\ m_fileSize = 0
    /\ openResult = FALSE
    /\ reqOffset = 0
    /\ reqSize = 0
    /\ readResult = <<>>
    /\ ArchiveIdle
    /\ LzIdle
    /\ ShapeIdle
    /\ pc = "closed"

NextPak ==
    \/ PakOpen
    \/ \E idx \in 0..MaxPakEntries : PakReadPacket(idx)
    \/ PakPacketReturn
    \/ Decompress
    \/ DecompressZlib
    \/ DecompressFallback
    \/ DecompressFinish
    \/ LzSteps

SpecPak == InitPak /\ [][NextPak]_vars

(***************************************************************************)
(* Specification of NestedPakReader::open on an archive of archives        *)
(***************************************************************************)
InitNested ==
    /\ reader = "pak"
    /\ fileBytes \in NestedArchives
    /\ openable = TRUE
    /\ m_file = ClosedStream
    /\ m_entries = <<>>
    /\ m_fileSize = 0
    /\ openResult = FALSE
    /\ reqOffset = 0
    /\ reqSize = 0
    /\ readResult = <<>>
    /\ ArchiveIdle
    /\ LzIdle
    /\ ShapeIdle
    /\ pc = "closed"

NextNested ==
    \/ NestedOpen
    \/ NestedReadPacket
    \/ PakPacketReturn
    \/ NestedPacket
    \/ MechPacket
    \/ MechLzReturn
    \/ MechReturn
    \/ NestedReturn
    \/ Decompress
    \/ DecompressZlib
    \/ DecompressFallback
    \/ DecompressFinish
    \/ LzSteps

SpecNested == InitNested /\ [][NextNested]_vars

(***************************************************************************)
(* Specification of ShapePackReader::loadFromPak on an archive of tables   *)
(***************************************************************************)
InitPack ==
    /\ reader = "pak"
    /\ fileBytes \in TableArchives
    /\ openable = TRUE
    /\ m_file = ClosedStream
    /\ m_entries = <<>>
    /\ m_fileSize = 0
    /\ openResult = FALSE
    /\ reqOffset = 0
    /\ reqSize = 0
    /\ readResult = <<>>
    /\ ArchiveIdle
    /\ LzIdle
    /\ ShapeIdle
    /\ pc = "closed"

NextPack ==
    \/ PackOpen
    \/ PackReadPacket
    \/ PakPacketReturn
    \/ PackPacket
    \/ PackReturn
    \/ PackReadFirst
    \/ PackFirst
    \/ Decompress
    \/ DecompressZlib
    \/ DecompressFallback
    \/ DecompressFinish
    \/ LzSteps

SpecPack == InitPack /\ [][NextPack]_vars

(***************************************************************************)
(* Specification of the flat archive: open, then findEntry and readFile    *)
(* calls of any paths                                                      *)
(***************************************************************************)
InitFst ==
    /\ reader = "fst"
    /\ fileBytes \in FstArchives
    /\ openable = TRUE
    /\ m_file = ClosedStream
    /\ m_entries = <<>>
    /\ m_fileSize = 0
    /\ openResult = FALSE
    /\ reqOffset = 0
    /\ reqSize = 0
    /\ readResult = <<>>
    /\ ArchiveIdle
    /\ LzIdle
    /\ ShapeIdle
    /\ pc = "closed"

NextFst ==
    \/ FstOpen
    \/ \E path \in LookupPaths : FstFindEntry(path)
    \/ \E path \in LookupPaths : FstReadFile(path)
    \/ FstFileReturn
    \/ Decompress
    \/ DecompressFallback
    \/ DecompressFinish
    \/ LzSteps

SpecFst == InitFst /\ [][NextFst]_vars

(***************************************************************************)
(* Specification of extractAll on an opened archive of either kind         *)
(***************************************************************************)
InitExtract ==
    /\ reader \in {"fst", "pak"}
    /\ fileBytes \in (IF reader = "fst" THEN FstArchives ELSE PakArchives)
    /\ openable = TRUE
    /\ m_file = ClosedStream
    /\ m_entries = <<>>
    /\ m_fileSize = 0
    /\ openResult = FALSE
    /\ reqOffset = 0
    /\ reqSize = 0
    /\ readResult = <<>>
    /\ ArchiveIdle
    /\ LzIdle
    /\ ShapeIdle
    /\ pc = "closed"

NextExtract ==
    \/ FstOpen
    \/ PakOpen
    \/ FstExtractAll
    \/ FstExtractRead
    \/ FstFileReturn
    \/ FstExtractWrite
    \/ PakExtractAll
    \/ PakExtractSkip
    \/ PakExtractRead
    \/ PakPacketReturn
    \/ PakExtractWrite
    \/ ExtractReturn
    \/ Decompress
    \/ DecompressZlib
    \/ DecompressFallback
    \/ DecompressFinish
    \/ LzSteps

SpecExtract == InitExtract /\ [][NextExtract]_vars

(***************************************************************************)
(* Specification of a handle that is opened again and again                *)
(***************************************************************************)
\* files given to FstReader::open: every archive of one entry, and the
\* files of FstFiles, three of which do not open as an archive
ReopenFstFiles == {FstArchive(ks) : ks \in [1..1 -> FstKinds]} \cup FstFiles

\* files given to PakReader::open: every archive of one packet, and files
\* whose count is below zero or above the ceiling, whose first offset is
\* past the end, whose seek table or header is cut short, and the empty file
ReopenPakFiles ==
    {PakArchive(ks, 0) : ks \in [1..1 -> PacketKinds]}
      \cup { PakFile(4, <<>>, 16), PakFile(20, <<>>, 16), PakFile(4000012, <<>>, 16),
             PakFile(16, <<>>, 10), <<206, 250, 237>>, <<>> }

\* directory entries a caller kept from an archive of one entry
HeldEntries ==
    { [dataOffset |-> 266, compressedSize |-> 0, uncompressedSize |-> 3,
       filePath |-> <<65, 47, 98, 46, 84>>],
      [dataOffset |-> 266, compressedSize |-> 6, uncompressedSize |-> 10,
       filePath |-> <<99>>] }

\* the paths looked up on it: "A\b.T", "c" and "zz"
ReopenPaths == { <<65, 92, 98, 46, 84>>, <<99>>, <<122, 122>> }

InitReopen ==
    /\ reader \in {"fst", "pak"}
    /\ fileBytes = <<>>
    /\ openable = TRUE
    /\ m_file = ClosedStream
    /\ m_entries = <<>>
    /\ m_fileSize = 0
    /\ openResult = FALSE
    /\ reqOffset = 0
    /\ reqSize = 0
    /\ readResult = <<>>
    /\ ArchiveIdle
    /\ LzIdle
    /\ ShapeIdle
    /\ pc = "closed"

NextReopen ==
    \/ \E f \in ReopenFstFiles, canOpen \in BOOLEAN : FstOpenFile(f, canOpen)
    \/ \E f \in ReopenPakFiles, canOpen \in BOOLEAN : PakOpenFile(f, canOpen)
    \/ \E path \in ReopenPaths : FstReadFile(path)
    \/ \E e \in HeldEntries : FstReadFileEntry(e)
    \/ FstFileReturn
    \/ \E idx \in 0..MaxPakEntries : PakReadPacket(idx)
    \/ PakPacketReturn
    \/ Decompress
    \/ DecompressZlib
    \/ DecompressFallback
    \/ DecompressFinish
    \/ LzSteps

SpecReopen == InitReopen /\ [][NextReopen]_vars

(***************************************************************************)
(* Specification of the decompressor on a source that fills the table      *)
(***************************************************************************)
\* zero bytes but for one bit: the codes are 0 until the width is 10, then
\* the third code of 10 bits is ClearTable (bit 2323 of the stream), then 0
\* again until the source ends
ShortSource == [i \in 1..ShortSrcLen |-> IF i = 291 THEN 8 ELSE 0]

\* the same after four pairs of a ClearTable and a literal 0 that follow the
\* first code, and long enough to fill the table
LongSource ==
    [i \in 1..LongSrcLen |->
        CASE i = 3 -> 2 [] i = 5 -> 8 [] i = 7 -> 32 [] i = 9 -> 128 [] i = 300 -> 8
          [] OTHER -> 0]

\* the codes 0, 259, 0, 259: the second is above the free index and becomes
\* the previous code, so the third inserts 259 with 259 as its chain
CyclicSource == <<0, 6, 2, 24, 8>>

\* the codes 0, 300, 301 and EndOfData: the third resolves through 300,
\* which is not in the table
DanglingSource == <<0, 88, 182, 12, 8>>

InitLZLong ==
    /\ packed = FALSE
    /\ plain = <<>>
    /\ call = "lzDecompress"
    /\ src \in {ShortSource, LongSource, CyclicSource, DanglingSource}
    /\ destLen = 1
    /\ useZlib = FALSE
    /\ enc = EncIdle
    /\ LzLocalsIdle
    /\ StreamIdle
    /\ ShapeIdle
    /\ pc = "lzEnter"

SpecLZLong == InitLZLong /\ [][LzSteps]_vars

(***************************************************************************)
(* Properties of the decompressor                                          *)
(***************************************************************************)
\* C1: lzDecompress returns for every input: when the loop head is reached
\* with the source used up and fewer buffered bits than one code needs, the
\* loop stops (the call returns) instead of decoding bits that do not exist.
C1_StopsAtEndOfSource ==
    [][(pc = "lzLoop" /\ srcPos = srcLen /\ U32Less(bitsInBuffer, bitCount))
          => pc' \in {"done", "fallback"}]_vars

\* C3: no destination cell at or beyond destLen is ever written, the write
\* position never passes destLen, and the returned count is at most destLen.
C3_DestWithinCapacity ==
    /\ \A i \in DOMAIN dest : 0 <= i /\ i < destLen
    /\ destPos <= destLen
    /\ lzRet <= destLen

\* C3 witness: the buffer is full and more codes were decoded since the last
\* clear than it has cells, so output has been dropped.
C3_OutputDropped ==
    /\ pc = "lzInsert"
    /\ destLen >= 1
    /\ destPos = destLen
    /\ (freeIndex - HASH_FREE) + 2 > destLen

\* the 9-bit codes 256 and 257, least significant bit first, zero padded
ClearThenEof == <<0, 3, 2>>

\* C4: a stream of only ClearTable followed by EndOfData decodes to 0 bytes
\* and nothing is written to the destination.
C4_ClearThenEofIsEmpty ==
    (call = "lzDecompress" /\ src = ClearThenEof /\ pc = "done")
        => (lzRet = 0 /\ DOMAIN dest = {})

C6_KeepsLargerOutput ==
    (call = "decompress" /\ ~useZlib /\ srcLen > 0 /\ destLen > 0 /\ pc = "done")
        => /\ zlibOut.called <=> (lzRet < destLen \div 2)
           /\ result = IF zlibOut.called /\ zlibOut.ret > lzRet
                       THEN zlibOut.written
                       ELSE lzOut

(***************************************************************************)
(* Properties of the archive handle                                        *)
(***************************************************************************)
\* C2: on an open handle a byte-range read that lies inside the file returns
\* exactly the requested bytes, whatever reads came before it (failed reads
\* and the size-prefix reads of PakReader::open included).
C2_ReadInsideFileReturnsBytes ==
    (pc = "ready" /\ m_file.open /\ reqSize > 0
       /\ reqOffset + reqSize <= Len(fileBytes))
        => readResult = Slice(fileBytes, reqOffset, reqSize)

(***************************************************************************)
(* Properties of the shape reader                                          *)
(***************************************************************************)
\* C7: load reads only bytes inside [0, size), and when it returns true the
\* version tag, the count and the whole offset table lie inside the buffer
\* and the count is at most 10,000
C7_LoadReadsInsideBuffer ==
    pc = "loadDone" =>
        /\ \A k \in loadReads : 0 <= k /\ k < loadSize
        /\ loadResult =>
              /\ m_shapeCount <= 10000
              /\ m_headerOffset \in {0, 7}
              /\ m_headerOffset + 8 + m_shapeCount * 8 <= loadSize

\* max - min + 1 lies in 1..1024, in unbounded arithmetic
InExtent(min, max) ==
    /\ max >= min
    /\ (min > INT_MAX - 1023 \/ max <= min + 1023)

\* C8: a shape whose width xmax - xmin + 1 or height ymax - ymin + 1 is <= 0
\* or > 1024 decodes to the empty image, and a shape with extents in 1..1024
\* whose data lies in the buffer decodes to an image of these extents
C8_CorruptExtentRejected ==
    (pc = "decodeDone" /\ header.read) =>
        IF InExtent(header.xmin, header.xmax) /\ InExtent(header.ymin, header.ymax)
        THEN m_offsets[shapeIndex + 1] + 24 < m_size =>
                /\ shapeData.width = header.xmax - header.xmin + 1
                /\ shapeData.height = header.ymax - header.ymin + 1
        ELSE shapeData = EmptyShape

\* C9: every cell decodeRLE writes lies inside the image: 0 <= x < width and
\* 0 <= y < height
C9_WritesInsideImage ==
    \A cell \in rleWrites :
        /\ 0 <= cell[1] /\ cell[1] < shapeData.width
        /\ 0 <= cell[2] /\ cell[2] < shapeData.height

\* the reference decoder of the scanline grammar: the cells a stream paints,
\* given the packet at position p and the column and row reached so far
RefPaint(img, w, h, col, row, vals) ==
    LET cols == {k \in 1..Len(vals) : col + k - 1 < w /\ row < h} IN
    [c \in (DOMAIN img) \cup {row * w + col + k - 1 : k \in cols} |->
        IF \E k \in cols : row * w + col + k - 1 = c
        THEN vals[c - row * w - col + 1]
        ELSE img[c]]

RECURSIVE RefDecodeFrom(_, _, _, _, _, _, _)
RefDecodeFrom(s, p, col, row, img, w, h) ==
    IF p > Len(s) THEN img
    ELSE IF s[p] = 0 THEN RefDecodeFrom(s, p + 1, 0, row + 1, img, w, h)
    ELSE IF p = Len(s) /\ s[p] % 2 = 0 THEN img
    ELSE IF p = Len(s) /\ s[p] = 1 THEN img
    ELSE IF s[p] = 1 THEN RefDecodeFrom(s, p + 2, col + s[p + 1], row, img, w, h)
    ELSE IF s[p] % 2 = 0
    THEN RefDecodeFrom(s, p + 2, col + (s[p] \div 2), row,
                       RefPaint(img, w, h, col, row, [k \in 1..(s[p] \div 2) |-> s[p + 1]]),
                       w, h)
    ELSE LET n == Min(s[p] \div 2, Len(s) - p) IN
         RefDecodeFrom(s, p + 1 + n, col + n, row,
                       RefPaint(img, w, h, col, row, [k \in 1..n |-> s[p + k]]),
                       w, h)

RefDecode(s, w, h) == RefDecodeFrom(s, 1, 0, 0, <<>>, w, h)

\* two pixel buffers of the same size, given by their written cells, are equal
PixelOr0(img, c) == IF c \in DOMAIN img THEN img[c] ELSE 0

SameBuffer(a, b) == \A c \in (DOMAIN a) \cup (DOMAIN b) : PixelOr0(a, c) = PixelOr0(b, c)

\* the stream decodeRLE was handed
RleStream == [k \in 1..srcSize |-> ByteAt(m_data, rleOffset + k - 1)]

\* decodeRLE has run on a stream inside the buffer and decodeShape returned
RleDecoded ==
    /\ pc = "decodeDone"
    /\ shapeData.width > 0
    /\ rleOffset + srcSize <= m_size

\* C10: the buffer decodeRLE leaves is the one the reference decoder of the
\* grammar produces: marker 0 ends the row, marker 1 skips by the next byte,
\* an even marker repeats the next byte marker>>1 times, an odd marker copies
\* marker>>1 bytes, every write is clipped to the image, and every other
\* pixel is 0
C10_DecodesGrammar ==
    RleDecoded =>
        /\ \A c \in DOMAIN shapeData.pixels : 0 <= c /\ c < shapeData.size
        /\ SameBuffer(shapeData.pixels,
                      RefDecode(RleStream, shapeData.width, shapeData.height))

\* a skip of one column, then a run of one pixel of colour 5, decoded into a
\* 2 x 2 image: the pixel lands at (1, 0)
C10_SkipThenRunDecoded ==
    /\ RleDecoded
    /\ shapeData.width = 2
    /\ RleStream = <<1, 1, 2, 5>>
    /\ shapeData.pixels = (1 :> 5)

\* C11: a shape whose RLE stream ends before all rows of the image have been
\* terminated, inside a packet or between packets, decodes to the empty image
C11_TruncatedStreamIsError ==
    (/\ pc = "decodeDone"
     /\ rleOffset > 0
     /\ InExtent(header.ymin, header.ymax)
     /\ rleY < header.ymax - header.ymin + 1)
    => shapeData = EmptyShape

\* the image of index idx as a function of the loaded table alone
ExpectedShape(idx) ==
    IF ~m_loaded \/ idx >= m_shapeCount \/ idx >= Len(m_offsets) THEN EmptyShape
    ELSE IF m_offsets[idx + 1] + 24 > m_size THEN EmptyShape
    ELSE LET at == m_offsets[idx + 1]
             xmin == ReadI32(m_data, at + 8, 0)
             ymin == ReadI32(m_data, at + 12, 0)
             xmax == ReadI32(m_data, at + 16, 0)
             ymax == ReadI32(m_data, at + 20, 0)
             first == at + 24
             last == IF idx + 1 < Len(m_offsets) /\ m_offsets[idx + 2] > first
                     THEN m_offsets[idx + 2]
                     ELSE m_size
         IN
         IF ~InExtent(xmin, xmax) \/ ~InExtent(ymin, ymax) \/ first >= m_size
         THEN EmptyShape
         ELSE [width |-> xmax - xmin + 1,
               height |-> ymax - ymin + 1,
               hotspotX |-> ToInt16(ByteAt(m_data, at + 6) + 256 * ByteAt(m_data, at + 7)),
               hotspotY |-> ToInt16(ByteAt(m_data, at + 4) + 256 * ByteAt(m_data, at + 5)),
               size |-> (xmax - xmin + 1) * (ymax - ymin + 1),
               pixels |-> RefDecode([k \in 1..(last - first) |-> ByteAt(m_data, first + k - 1)],
                                    xmax - xmin + 1, ymax - ymin + 1)]

\* the header of the decoded shape has extents that fit an int
ExtentsFit ==
    header.read =>
        /\ Cardinality(Extent(header.xmin, header.xmax)) = 1
        /\ Cardinality(Extent(header.ymin, header.ymax)) = 1

\* a decodeShape call has returned
DecodeReturned ==
    /\ pc = "decodeDone"
    /\ ExtentsFit
    /\ rleOffset + srcSize <= m_size

\* the returned image is the one the loaded table determines for the index
DecodeMatchesTable ==
    DecodeReturned =>
        LET e == ExpectedShape(shapeIndex) IN
        /\ shapeData.width = e.width
        /\ shapeData.height = e.height
        /\ shapeData.hotspotX = e.hotspotX
        /\ shapeData.hotspotY = e.hotspotY
        /\ shapeData.size = e.size
        /\ SameBuffer(shapeData.pixels, e.pixels)

FirstOffset == LE32(Slice(fileBytes, 4, 4))

\* PakReader::open has returned
PakOpened == reader = "pak" /\ pc = "ready"

\* C13: open fails when the first packet offset is below 8, when
\* firstOffset/4 - 2 exceeds 1,000,000 or when the first packet offset exceeds
\* the file size, and after a successful open the number of entries is
\* firstOffset/4 - 2
C13_CountFromFirstOffset ==
    (PakOpened /\ Len(fileBytes) >= 8) =>
        /\ (FirstOffset < 8 \/ FirstOffset \div 4 - 2 > 1000000
               \/ FirstOffset > Len(fileBytes)) => ~openResult
        /\ openResult => Len(m_entries) = FirstOffset \div 4 - 2

\* an archive of two packets has been opened
C13_TwoPacketsOpened ==
    /\ PakOpened
    /\ openResult
    /\ FirstOffset = 16
    /\ Len(m_entries) = 2

\* a + b in uint32_t arithmetic
U32Plus(a, b) ==
    LET lo == a.lo + b.lo IN
    [hi |-> (a.hi + b.hi + lo \div Half) % Half, lo |-> lo % Half]

\* the sum of packedSize over the entries from the i-th on, in uint32_t
RECURSIVE SumPackedFrom(_)
SumPackedFrom(i) ==
    IF i > Len(m_entries) THEN U32Of(0)
    ELSE U32Plus(m_entries[i].packedSize, SumPackedFrom(i + 1))

StoredWhole(e) ==
    /\ e.storageType \in {RAW, FWF}
    /\ e.packedSize.hi = 0
    /\ e.offset + e.packedSize.lo <= Len(fileBytes)

\* C15: readPacket(i) returns empty for an index out of range and for a
\* Null, a Huffman or an unknown storage type, and for a Raw or
\* FileWithinFile entry exactly the packedSize bytes stored at its offset.
C15_ReadPacketByKind ==
    (PakOpened /\ openResult /\ packetIndex >= 0) =>
        IF packetIndex >= Len(m_entries)
           \/ m_entries[packetIndex + 1].storageType \notin {RAW, FWF, LZD, ZLIB}
        THEN packetResult = <<>>
        ELSE StoredWhole(m_entries[packetIndex + 1]) =>
                 packetResult = Slice(fileBytes, m_entries[packetIndex + 1].offset,
                                      m_entries[packetIndex + 1].packedSize.lo)

(***************************************************************************)
(* Properties of the loaders                                               *)
(***************************************************************************)
\* the data d is an inner archive with a raw packet that loads as a frame
RawFrameIn(d) ==
    /\ MechHeaderOk(d)
    /\ \E i \in 0..(SizeOf(MechCount(d)) - 1) :
          LET n == SizeOf(MechCount(d))
              packet == MechPacketBytes(d, i, n) IN
          /\ ~MechSkipped(d, i, n)
          /\ ExtractType(MechWord(d, i)) = RAW
          /\ \/ LoadedMechShape(NewMechShapeReader, packet).ok
             \/ \A g \in LoadOob(packet) : LoadedReader(NewShapeReader, Plain(packet), g).ok

\* the bytes of the i-th outer packet as stored
StoredPacket(i) ==
    Slice(fileBytes, m_entries[i + 1].offset, m_entries[i + 1].packedSize.lo)

NestedReturned == reader = "pak" /\ loaderPc = "returned" /\ m_mechSprites # <<>>

\* C16: after NestedPakReader::open, getMech(i) returns a frame set for
\* every i among the first 3 outer packets whose packet is an inner archive
\* with a frame, and null for every i beyond them or out of range.
C16_PrefixMechsSurfaced ==
    NestedReturned =>
        /\ \A i \in 0..(Len(m_entries) - 1) :
              /\ (i < NestedMaxToLoad /\ StoredWhole(m_entries[i + 1])
                    /\ RawFrameIn(StoredPacket(i))) => GetMech(i) # Null
              /\ i >= NestedMaxToLoad => GetMech(i) = Null
        /\ GetMech(Len(m_entries)) = Null

PackReturned == reader = "pak" /\ loaderPc = "returned" /\ m_packetData # <<>>

\* the shapes of the tables among the kept packets, from the k-th on, that
\* load
RECURSIVE ParsedShapeCountFrom(_)
ParsedShapeCountFrom(k) ==
    IF k > Len(m_packetData) THEN 0
    ELSE LET t == LoadedReader(NewShapeReader, Plain(m_packetData[k]), 0) IN
         (IF t.ok THEN t.reader.m_shapeCount ELSE 0) + ParsedShapeCountFrom(k + 1)

\* C17: once loadFromPak has returned, every reader getTable hands out is
\* a loaded one and getTotalShapeCount is the number of shapes of the tables
\* that parsed.
C17_OnlyLoadedTablesSurfaced ==
    PackReturned =>
        /\ \A index \in 0..(Len(m_tables) - 1) : GetTable(index).m_loaded
        /\ GetTotalShapeCount = ParsedShapeCountFrom(1)

(***************************************************************************)
(* Properties of the flat archive                                          *)
(***************************************************************************)
\* readFile has returned for the entry e found by its path
FileReturned == reader = "fst" /\ pc = "ready" /\ openResult /\ fileEntry >= 1

\* the bytes readFile reads for the entry e lie inside the file
StoredInFile(e) ==
    e.dataOffset + (IF IsCompressed(e) THEN e.compressedSize ELSE e.uncompressedSize)
        <= Len(fileBytes)

\* C18: readFile(findEntry(e.path)) returns exactly e.uncompressedSize
\* bytes, and for an entry that is not compressed the bytes stored at
\* dataOffset.  Stated for the entry findEntry returns for the path, when its
\* bytes lie inside the file.
C18_ReadFileReturnsDeclaredSize ==
    (FileReturned /\ StoredInFile(m_entries[fileEntry])) =>
        LET e == m_entries[fileEntry] IN
        /\ Len(fileResult) = e.uncompressedSize
        /\ ~IsCompressed(e) => fileResult = Slice(fileBytes, e.dataOffset, e.uncompressedSize)

\* a path with backslashes turned into slashes and ASCII capitals into small
\* letters
Folded(path) ==
    [i \in 1..Len(path) |-> IF path[i] = 92 THEN 47
                            ELSE IF path[i] \in 65..90 THEN path[i] + 32
                            ELSE path[i]]

\* the entries whose stored path is the path looked up, both folded
Matching == {k \in 1..Len(m_entries) : Folded(m_entries[k].filePath) = Folded(searchPath)}

\* findEntry has named the first of them, or null when there is none, and
\* has compared characters of entries of the length of the path only
FoundIsFirstMatch ==
    (reader = "fst" /\ foundEntry >= 0) =>
        /\ foundEntry = IF Matching = {} THEN 0
                        ELSE CHOOSE k \in Matching : \A j \in Matching : k <= j
        /\ \A k \in compared : Len(m_entries[k].filePath) = Len(searchPath)

\* a call of findEntry on the open archive
FindEntryStep == \E path \in LookupPaths : FstFindEntry(path)

\* C19: findEntry(p) returns the first entry in directory order whose
\* stored path equals p once backslashes are slashes and ASCII case is
\* folded, null when there is none; it compares characters only of entries of
\* the same length; and it changes nothing of the reader.
C19_FindEntry ==
    /\ []FoundIsFirstMatch
    /\ [][FindEntryStep => UNCHANGED <<m_file, m_entries, fileBytes, openResult,
                                       fileEntry, fileResult>>]_vars

\* a lookup in other letters has found the first of two entries that match
C19_FirstOfTwoFound ==
    /\ reader = "fst"
    /\ foundEntry = 1
    /\ Cardinality(Matching) = 2
    /\ searchPath # m_entries[1].filePath
    /\ compared = {1}

(***************************************************************************)
(* Properties of extractAll                                                *)
(***************************************************************************)
ExtractReturned == extractPc = "returned"

\* the entries extractAll has to read, in directory order: all of a flat
\* archive, all but the null packets of a seek-table archive
ToExtract ==
    SelectSeq([k \in 1..Len(m_entries) |-> k - 1],
              LAMBDA i : reader = "pak" => m_entries[i + 1].storageType # NUL)

\* the entry i is one readPacket can only answer with a decode failure
Undecodable(i) ==
    reader = "pak" /\ m_entries[i + 1].storageType \notin {RAW, FWF, LZD, ZLIB, NUL}

\* C20: extractAll reads every entry in directory order whatever happened
\* to the entries before, returns the number of entries whose file was
\* written, and never counts an entry that failed to read or decode.
C20_ExtractAllCountsWrittenEntries ==
    ExtractReturned =>
        /\ attempted = ToExtract
        /\ extracted = Cardinality(written)
        /\ \A i \in written : ~Undecodable(i)

(***************************************************************************)
(* Properties of open                                                      *)
(***************************************************************************)
\* the file is one open has to refuse: it does not open, its header or
\* directory is cut short, its count is above the ceiling or its first
\* packet offset is past its end
MustRefuse ==
    \/ ~openable
    \/ /\ reader = "fst"
       /\ \/ Len(fileBytes) < 4
          \/ LE32(fileBytes) > FstMaxEntries
          \/ Len(fileBytes) < 4 + (12 + MAX_FILENAME_SIZE) * LE32(fileBytes)
    \/ /\ reader = "pak"
       /\ \/ Len(fileBytes) < 8
          \/ U32Gt(PakCount(FirstOffset), PakMaxPackets)
          \/ FirstOffset > Len(fileBytes)

\* a step that is a call of readFile or readPacket
ReadCall ==
    \/ \E path \in ReopenPaths : FstReadFile(path)
    \/ \E e \in HeldEntries : FstReadFileEntry(e)
    \/ \E idx \in 0..MaxPakEntries : PakReadPacket(idx)

\* C21: an open that has to fail returns false; after a failed open the
\* handle is closed and its directory is empty, whatever it held before;
\* every readFile and readPacket on it returns empty at once.
C21_FailedOpenLeavesClosed ==
    /\ []((pc = "ready" /\ MustRefuse) => ~openResult)
    /\ [](~openResult => (~m_file.open /\ m_entries = <<>> /\ m_fileSize = 0))
    /\ [][(~openResult /\ ReadCall) =>
            (pc' = "ready" /\ fileResult' = <<>> /\ packetResult' = <<>>)]_vars

\* a handle that had decoded the ten letters of the entry "c" was given a
\* file whose directory is cut short, and readFile("c") then found nothing
C21_ReopenFailedThenRead ==
    /\ reader = "fst"
    /\ pc = "ready"
    /\ ~openResult
    /\ fileBytes = FstFile(1, <<FstEntryA>>, 200)
    /\ result = <<97, 97, 97, 97, 97, 97, 97, 97, 97, 97>>
    /\ searchPath = <<99>>
    /\ foundEntry = 0
    /\ fileResult = <<>>

(***************************************************************************)
(* Properties of the code width and the table of the decompressor          *)
(***************************************************************************)
\* the code the next step of lzDecompress reads first
CodeRead == ReadCode(src, srcPos, bitBuffer, bitsInBuffer, bitCount, codeMask)

\* the next step reads a code, and it is ClearTable
ClearRead ==
    /\ \/ pc = "lzFirst" /\ srcPos <= srcLen - 3
       \/ pc = "lzLoop" /\ srcPos <= srcLen
    /\ CodeRead.code = HASH_CLEAR

\* the code that follows the one the next step reads: whether the source
\* holds its 9 bits, and what readCode makes of them
CodeAfter ==
    [present |-> CodeRead.bitsInBuffer.hi = 0
                   /\ CodeRead.bitsInBuffer.lo + 8 * (srcLen - CodeRead.srcPos) >= BASE_BITS,
     read |-> ReadCode(src, CodeRead.srcPos, CodeRead.bitBuffer, CodeRead.bitsInBuffer,
                       BASE_BITS, MAX_BIT_INDEX - 1)]

\* C22: a step that decodes ClearTable leaves the width at 9 and the free
\* index at 258, inserts nothing, and emits the code that follows (unless it
\* is EndOfData) as one literal byte that becomes the previous code; the
\* ClearTable itself emits nothing, wherever it stands in the stream.
C22_ClearThenFreshLiteral ==
    [][ClearRead =>
          /\ bitCount' = BASE_BITS
          /\ freeIndex' = HASH_FREE
          /\ hashTable' = hashTable
          /\ IF CodeAfter.present /\ CodeAfter.read.code # HASH_EOF
             THEN /\ dest' = PutDest(dest, destPos, destLen, CodeAfter.read.code % 256).dest
                  /\ destPos' = PutDest(dest, destPos, destLen,
                                        CodeAfter.read.code % 256).destPos
                  /\ oldChain' = CodeAfter.read.code
             ELSE /\ dest' = dest
                  /\ destPos' = destPos]_vars

\* lzDecompress is between its initialisation and its return
InLz == pc \in {"lzFirst", "lzLoop", "lzChain", "lzEmit", "lzInsert"}

\* C23: inside lzDecompress the width is 9..12, the mask and the ceiling
\* follow it, and the free index is 258..5719; the width changes only by
\* one step up at the insertion that brings the free index to the ceiling
\* while the width is below 12, and back to 9 on ClearTable.
C23_WidthFollowsTable ==
    /\ [](InLz => /\ bitCount >= 9
                  /\ bitCount <= 12
                  /\ codeMask = Pow2(bitCount) - 1
                  /\ maxIndex = Pow2(bitCount)
                  /\ freeIndex >= 258
                  /\ freeIndex <= 5719)
    /\ [][(InLz /\ bitCount' # bitCount) =>
            \/ /\ pc = "lzInsert"
               /\ bitCount < 12
               /\ bitCount' = bitCount + 1
               /\ freeIndex' = freeIndex + 1
               /\ freeIndex' = Pow2(bitCount)
            \/ /\ ClearRead
               /\ bitCount' = 9]_vars
    /\ [][(pc = "lzInsert" /\ freeIndex' = Pow2(bitCount) /\ freeIndex' # freeIndex
             /\ bitCount < 12) => bitCount' = bitCount + 1]_vars

\* the width grew to 10 at the 254th insertion and the ClearTable of the
\* short source has just put it back to 9
C23_GrownThenReset ==
    /\ Len(src) = ShortSrcLen
    /\ pc = "lzLoop"
    /\ code = HASH_CLEAR
    /\ bitCount = BASE_BITS
    /\ freeIndex = HASH_FREE
    /\ 253 \in DOMAIN hashTable

\* C24: every cell of the hash table that is read or written has an index
\* in 0..5460 and every cell of the character stack one in 0..4095; a chain
\* that does not end before the stack is full makes lzDecompress return 0.
C24_TableAndStackInRange ==
    /\ [](InLz => /\ DOMAIN hashTable \subseteq 0..5460
                  /\ DOMAIN charStack \subseteq 0..4095
                  /\ stackPos <= 4096
                  /\ (pc = "lzChain" /\ code >= 258 /\ stackPos < 4096)
                        => code - 258 \in 0..5460)
    /\ [][(pc = "lzChain" /\ code >= 258 /\ stackPos >= 4096) =>
            (lzRet' = 0 /\ pc' = "done")]_vars

\* the chain of code 259 leads to 259 and has been followed three times
C24_WalkingCyclicChain ==
    /\ src = CyclicSource
    /\ pc = "lzChain"
    /\ code = 259
    /\ HashAt(hashTable, 1).chain = 259
    /\ stackPos = 3

\* ---- pak_reader.cpp: the range readPacket asks readRawData for ----

\* a compressed entry whose packet is shorter than its own size word
ShortCompressed(idx) ==
    /\ idx < Len(m_entries)
    /\ m_entries[idx + 1].storageType \in {LZD, ZLIB}
    /\ U32Less(m_entries[idx + 1].packedSize, 4)

\* C25: for a CustomLZ or Deflate entry readPacket hands the decompressor
\* exactly the bytes [offset+4, offset+packedSize) with the stored
\* unpackedSize as capacity, and for an entry with packedSize < 4 it
\* returns empty without asking the stream for any range (no seek, no
\* read: the stream is left as it was).
C25_CompressedRangeInsidePacket ==
    [][\A idx \in 0..MaxPakEntries :
          (PakReadPacket(idx) /\ idx < Len(m_entries)
              /\ m_entries[idx + 1].storageType \in {LZD, ZLIB})
          => LET entry == m_entries[idx + 1] IN
             IF ShortCompressed(idx)
             THEN /\ pc' = "ready"
                  /\ packetResult' = <<>>
                  /\ m_file' = m_file
             ELSE /\ pc' = "decompress"
                     => /\ src' = Slice(fileBytes, entry.offset + 4,
                                        SizeOf(entry.packedSize) - 4)
                        /\ destLen' = SizeOf(entry.unpackedSize)
                        /\ useZlib' = (entry.storageType = ZLIB)
                  /\ pc' = "ready" => packetResult' = <<>>]_vars

\* C25 without the short-packet clause: a compressed entry of at least
\* four bytes is decompressed from [offset+4, offset+packedSize)
C25_LongEnoughRange ==
    [][\A idx \in 0..MaxPakEntries :
          (PakReadPacket(idx) /\ idx < Len(m_entries)
              /\ m_entries[idx + 1].storageType \in {LZD, ZLIB}
              /\ ~ShortCompressed(idx) /\ pc' = "decompress")
          => LET entry == m_entries[idx + 1] IN
             /\ src' = Slice(fileBytes, entry.offset + 4, SizeOf(entry.packedSize) - 4)
             /\ destLen' = SizeOf(entry.unpackedSize)]_vars

(***************************************************************************)
(* Specification of decodeShape on tables whose second offset word holds   *)
(* any value: before, at and after the first shape's stream, and past the  *)
(* end of the buffer                                                       *)
(***************************************************************************)
\* the second offset word: 0, the first shape's own offset, the start of
\* its stream, one and three bytes into the stream, and five bytes into it,
\* which is past the end of every buffer
NextOffsets == {0, 24, 48, 49, 51, 53}

\* a table of two offsets and one shape of 2 x 2 pixels at offset 24
OffsetTable(next, stream) ==
    Plain(Tag110 \o LE32Bytes(2) \o LE32Bytes(24) \o <<0, 0, 0, 0>>
          \o LE32Bytes(next) \o <<0, 0, 0, 0>>
          \o HeaderBytes(0, 0, 1, 1) \o stream)

OffsetTables ==
    {OffsetTable(next, s) : next \in NextOffsets, s \in SeqsUpTo(RleBytes, MaxRleLen - 1)}

InitShapeOffsets ==
    /\ tableBuf \in OffsetTables
    /\ ReaderFresh
    /\ LzIdle
    /\ StreamIdle
    /\ pc = "shapeIdle"

SpecShapeOffsets == InitShapeOffsets /\ [][NextShape]_vars

\* decodeRLE is running
InRle == pc \in {"rle", "rleString", "rleRun"}

\* the next statement of decodeRLE reads src[srcPos]
RleReads ==
    \/ pc = "rle" /\ RleLoopCondition
    \/ pc = "rleString" /\ rleI < rleCount /\ rleSrcPos < srcSize

\* C26: the range decodeShape hands to decodeRLE starts right after the
\* 24-byte header of the shape and ends inside the loaded buffer whatever
\* the offset table holds, and decodeRLE never reads a byte at or beyond
\* the end of the buffer.
C26_RleRangeInsideBuffer ==
    /\ InRle => /\ rleOffset = m_offsets[shapeIndex + 1] + ShapeHeaderSize
                /\ rleOffset + srcSize <= m_size
    /\ RleReads => rleOffset + rleSrcPos < m_size

\* C26 restricted to tables whose next offset lies inside the buffer
C26_RangeInsideWhenNextInside ==
    (InRle /\ shapeIndex + 1 < m_shapeCount /\ m_offsets[shapeIndex + 2] <= m_size)
    => /\ rleOffset = m_offsets[shapeIndex + 1] + ShapeHeaderSize
       /\ rleOffset + srcSize <= m_size
       /\ RleReads => rleOffset + rleSrcPos < m_size

\* ---- pak_reader.cpp: the directory readSeekTable builds ----

\* C27: after a successful open every directory entry lies inside the file,
\* offset <= fileSize and offset + packedSize <= fileSize, whatever the
\* offset words hold; packedSize is never a wrapped difference.
C27_EntriesInsideFile ==
    (PakOpened /\ openResult) =>
        \A i \in 1..Len(m_entries) :
            /\ m_entries[i].offset <= m_fileSize
            /\ m_entries[i].packedSize.hi = 0
            /\ m_entries[i].packedSize.lo <= m_fileSize - m_entries[i].offset

(***************************************************************************)
(* Specification of one ShapeReader loaded again and again: load on any of *)
(* a few buffers, good and bad, and decodeShape in between                 *)
(***************************************************************************)
\* a table of version 1.10 and two offsets 24 and 48 cut to 20 bytes, so
\* that its offset table does not fit
CutTable == Plain(Take(Tag110 \o LE32Bytes(2) \o LE32Bytes(24) \o <<0, 0, 0, 0>>
                       \o LE32Bytes(48) \o <<0, 0, 0, 0>>, 20))

ReloadBuffers ==
    { Table1(<<>>, HeaderBytes(0, 0, 1, 1), <<4, 7, 0, 5, 8, 9>>),
      Table1(<<>>, HeaderBytes(0, 0, 1, 1), <<1, 1, 3, 5>>),
      Table2(<<0>>, <<2, 3>>),
      CutTable,
      Plain(<<0, 46, 49, 48, 0, 0, 0, 0>>),     \* no version tag
      Plain(<<49, 46, 49>>) }                   \* shorter than a header

InitReload ==
    /\ tableBuf \in ReloadBuffers
    /\ ReaderFresh
    /\ LzIdle
    /\ StreamIdle
    /\ pc = "shapeIdle"

NextReload ==
    \/ \E b \in ReloadBuffers : ShapeLoad(b)
    \/ \E idx \in 0..MaxShapeIndex : DecodeShape(idx)
    \/ RleSteps

SpecReload == InitReload /\ [][NextReload]_vars

\* the offset table of the current buffer
OffsetsOfBuffer ==
    [k \in 1..m_shapeCount |-> ReadU32(m_data, m_headerOffset + 8 + (k - 1) * 8, 0)]

\* C28: across any sequence of load calls on one reader, isLoaded() is true
\* only if the most recent load succeeded, and whenever it is true the
\* stored offsets are the getShapeCount() offsets of the current buffer.
C28_LoadedMeansLastLoadSucceeded ==
    m_loaded => /\ loadResult
                /\ Len(m_offsets) = m_shapeCount
                /\ m_offsets = OffsetsOfBuffer

\* C28 for a reader that was never loaded successfully before: the first
\* successful load leaves the offsets of its buffer
C28_LoadedAfterSuccess ==
    (m_loaded /\ loadResult) => /\ Len(m_offsets) = m_shapeCount
                                /\ m_offsets = OffsetsOfBuffer

(***************************************************************************)
(* nested_pak_reader.cpp: MechSpriteSet::load called by the user, on one   *)
(* set again and again                                                     *)
(***************************************************************************)
\* loads are started while the set holds fewer mech frames than this
MaxKeptFrames == 2

\* load(data, size): the checks of the header; a good header clears
\* m_frameData and m_frames and starts the loop over the packets
MechLoad(d) ==
    /\ loaderPc \in {"idle", "returned"}
    /\ pc = "ready"
    /\ IF MechHeaderOk(d)
       THEN /\ mechData' = d
            /\ mechI' = 0
            /\ successCount' = 0
            /\ m_mechSprites' = [m_mechSprites EXCEPT ![loaderI + 1].m_frameData = <<>>,
                                                      ![loaderI + 1].m_frames = <<>>]
            /\ loaderPc' = "mechLoop"
            /\ UNCHANGED loaderResult
       ELSE /\ loaderResult' = FALSE
            /\ loaderPc' = "returned"
            /\ UNCHANGED <<mechData, mechI, successCount, m_mechSprites>>
    /\ UNCHANGED <<loaderI, loadedCount, m_packetData, m_tables>>
    /\ UNCHANGED <<lzVars, loaderKeeps, shapeVars, pc>>

\* the loop is over: load returns whether the set holds a frame
MechLoadReturn ==
    /\ loaderPc = "mechLoop"
    /\ pc = "ready"
    /\ mechI >= SizeOf(MechCount(mechData))
    /\ loaderResult' = MechIsLoaded(m_mechSprites[loaderI + 1])
    /\ loaderPc' = "returned"
    /\ UNCHANGED <<loaderI, m_mechSprites, loadedCount, mechData, mechI, successCount,
                   m_packetData, m_tables>>
    /\ UNCHANGED <<lzVars, loaderKeeps, shapeVars, pc>>

\* the data load is called on: inner archives of mech frames, of tables, of
\* packets of every kind, and bytes that are no archive
MechDatas ==
    { PakArchive(<<InnerMech>>, 0),
      PakArchive(<<InnerMech, InnerTable>>, 0),
      PakArchive(<<InnerTable, InnerJunk>>, 0),
      PakArchive(<<InnerJunk, InnerPacked>>, 0),
      PakArchive(<<InnerNull, InnerOther, InnerShort, InnerNoSize>>, 0),
      <<1, 2, 3>> }

InitMechReload ==
    /\ reader = "none"
    /\ fileBytes = <<>>
    /\ openable = TRUE
    /\ m_file = ClosedStream
    /\ m_entries = <<>>
    /\ m_fileSize = 0
    /\ openResult = FALSE
    /\ reqOffset = 0
    /\ reqSize = 0
    /\ readResult = <<>>
    /\ packetIndex = -1
    /\ packetResult = <<>>
    /\ FstIdle
    /\ ExtractIdle
    /\ MissionIdle
    /\ loaderPc = "idle"
    /\ loaderI = 0
    /\ loaderResult = FALSE
    /\ m_mechSprites = <<NewMechSpriteSet>>
    /\ loadedCount = 0
    /\ mechData = <<>>
    /\ mechI = 0
    /\ successCount = 0
    /\ m_packetData = <<>>
    /\ m_tables = <<>>
    /\ LzIdle
    /\ ShapeIdle
    /\ pc = "ready"

NextMechReload ==
    \/ \E d \in MechDatas :
          /\ Len(m_mechSprites[loaderI + 1].m_mechFrames) < MaxKeptFrames
          /\ MechLoad(d)
    \/ MechPacket
    \/ MechLzReturn
    \/ MechLoadReturn
    \/ LzSteps

SpecMechReload == InitMechReload /\ [][NextMechReload]_vars

\* the buffers of the frame readers of a set, standard and mech format
ReaderBuffers(s) ==
    {s.m_frames[k].m_data.head : k \in 1..Len(s.m_frames)}
    \cup {s.m_mechFrames[k].m_data : k \in 1..Len(s.m_mechFrames)}

\* every reader of the set has its buffer in m_frameData, one buffer each
FramesBacked(s) ==
    /\ Len(s.m_frameData) = Len(s.m_frames) + Len(s.m_mechFrames)
    /\ ReaderBuffers(s) \subseteq {s.m_frameData[k] : k \in 1..Len(s.m_frameData)}

\* C29: across any sequence of load calls on one set, after every load
\* m_frameData holds one buffer per stored frame reader, standard or mech,
\* and every reader's buffer is among them; a packet that adds no frame
\* leaves the lists as they were.
C29_FramesBackedAfterEveryLoad ==
    /\ [](loaderPc = "returned" => FramesBacked(m_mechSprites[1]))
    /\ [][(loaderPc = "mechLoop" /\ loaderPc' = "mechLoop" /\ mechI' # mechI
             /\ successCount' = successCount)
          => m_mechSprites' = m_mechSprites]_vars

\* C29, the part about one packet: an iteration of the loop that counts no
\* new frame leaves m_frameData, m_frames and m_mechFrames as they were
C29_FailedPacketLeavesLists ==
    [][(loaderPc = "mechLoop" /\ loaderPc' = "mechLoop" /\ mechI' # mechI
          /\ successCount' = successCount)
       => m_mechSprites' = m_mechSprites]_vars

(***************************************************************************)
(* game/mission.cpp: Mission                                               *)
(***************************************************************************)
\* updates are taken while the elapsed time is below this
MaxTime == 3
\* the most objectives a mission file holds
MaxObjectives == 2
\* the mission is paused while the state has changed fewer times than this
MaxStateChanges == 3

\* what the operations of a mission leave alone
missionKeeps == <<lzVars, streamVars, shapeVars, packetIndex, packetResult, loaderVars,
                  fstVars, extractVars, pc>>

\* the results end() accepts
MissionResults == {"Success", "Failure", "Aborted"}

\* setState(state): m_onStateChange is called when the state changes
SetState(state) ==
    /\ m_state' = state
    /\ stateChanges' = IF m_state # state THEN Append(stateChanges, state)
                       ELSE stateChanges

\* end(result), outcome standing for its argument
End(outcome) ==
    IF outcome \in MissionResults THEN SetState(outcome)
    ELSE UNCHANGED <<m_state, stateChanges>>

\* MissionManager::loadMission on a new Mission: load parses the file (ok
\* tells whether it could) and leaves the state Loading, initialize spawns
\* the mechs
LoadMission(ok, limit, objectives, triggers, mechs) ==
    /\ missionPc = "idle"
    /\ m_state = "NotLoaded"
    /\ IF ok
       THEN /\ m_state' = "Loading"
            /\ m_timeLimit' = limit
            /\ m_objectives' = objectives
            /\ m_triggers' = triggers
            /\ m_mechs' = mechs
       ELSE UNCHANGED <<m_state, m_timeLimit, m_objectives, m_triggers, m_mechs>>
    /\ UNCHANGED <<missionPc, m_elapsedTime, stateChanges>>
    /\ UNCHANGED missionKeeps

\* start()
MissionStart ==
    /\ missionPc = "idle"
    /\ IF m_state \in {"Loading", "Briefing"}
       THEN /\ SetState("InProgress")
            /\ m_elapsedTime' = 0
            /\ m_triggers' = [k \in DOMAIN m_triggers |->
                                 IF m_triggers[k].condition = "OnStart"
                                 THEN [m_triggers[k] EXCEPT !.fired = TRUE]
                                 ELSE m_triggers[k]]
       ELSE UNCHANGED <<m_state, stateChanges, m_elapsedTime, m_triggers>>
    /\ UNCHANGED <<missionPc, m_timeLimit, m_objectives, m_mechs>>
    /\ UNCHANGED missionKeeps

\* pause()
MissionPause ==
    /\ missionPc = "idle"
    /\ IF m_state = "InProgress" THEN SetState("Paused")
       ELSE UNCHANGED <<m_state, stateChanges>>
    /\ UNCHANGED <<missionPc, m_elapsedTime, m_timeLimit, m_objectives, m_triggers, m_mechs>>
    /\ UNCHANGED missionKeeps

\* resume()
MissionResume ==
    /\ missionPc = "idle"
    /\ IF m_state = "Paused" THEN SetState("InProgress")
       ELSE UNCHANGED <<m_state, stateChanges>>
    /\ UNCHANGED <<missionPc, m_elapsedTime, m_timeLimit, m_objectives, m_triggers, m_mechs>>
    /\ UNCHANGED missionKeeps

\* no enemy mech is left
AllEnemiesDestroyed ==
    \A k \in DOMAIN m_mechs : m_mechs[k].team = 0 \/ m_mechs[k].destroyed

\* a player mech is left
AnyPlayerAlive ==
    \E k \in DOMAIN m_mechs : m_mechs[k].team = 0 /\ ~m_mechs[k].destroyed

\* the condition of a trigger at the time now
ConditionMet(t, now) ==
    CASE t.condition = "OnTime" -> now >= t.delay
      [] t.condition = "OnUnitDestroyed" ->
             \E k \in DOMAIN m_mechs :
                 /\ m_mechs[k].name = t.targetId
                 /\ \A j \in 1..(k - 1) : m_mechs[j].name # t.targetId
                 /\ m_mechs[k].destroyed
      [] t.condition = "OnObjectiveComplete" ->
             t.targetId \in DOMAIN m_objectives
             /\ m_objectives[t.targetId].status = "Complete"
      [] OTHER -> FALSE

\* checkTriggers()
CheckTriggers(now) ==
    [k \in DOMAIN m_triggers |->
        IF ~m_triggers[k].fired /\ ConditionMet(m_triggers[k], now)
        THEN [m_triggers[k] EXCEPT !.fired = TRUE]
        ELSE m_triggers[k]]

\* one iteration of checkObjectives() on the objective o
CheckedObjective(o, now) ==
    LET timed == IF o.timeLimit > 0 /\ now >= o.timeLimit
                 THEN [o EXCEPT !.status = IF o.type = "Survive" THEN "Complete"
                                           ELSE "Failed"]
                 ELSE o
    IN
    IF o.status # "Incomplete" THEN o
    ELSE IF timed.type = "DestroyAll" /\ AllEnemiesDestroyed /\ timed.status = "Incomplete"
    THEN [timed EXCEPT !.status = "Complete"]
    ELSE timed

\* update(deltaTime) up to the call of checkMissionEnd
MissionUpdate(deltaTime) ==
    /\ missionPc = "idle"
    /\ m_elapsedTime < MaxTime
    /\ IF m_state # "InProgress"
       THEN UNCHANGED <<missionPc, m_elapsedTime, m_triggers, m_objectives>>
       ELSE /\ m_elapsedTime' = m_elapsedTime + deltaTime
            /\ m_triggers' = CheckTriggers(m_elapsedTime + deltaTime)
            /\ m_objectives' = [k \in DOMAIN m_objectives |->
                                   CheckedObjective(m_objectives[k],
                                                    m_elapsedTime + deltaTime)]
            /\ missionPc' = "checkAlive"
    /\ UNCHANGED <<m_state, stateChanges, m_timeLimit, m_mechs>>
    /\ UNCHANGED missionKeeps

\* checkMissionEnd(): all player mechs destroyed
CheckPlayersAlive ==
    /\ missionPc = "checkAlive"
    /\ IF ~AnyPlayerAlive
       THEN /\ End("Failure")
            /\ missionPc' = "idle"
       ELSE /\ missionPc' = "checkFailed"
            /\ UNCHANGED <<m_state, stateChanges>>
    /\ UNCHANGED <<m_elapsedTime, m_timeLimit, m_objectives, m_triggers, m_mechs>>
    /\ UNCHANGED missionKeeps

\* checkMissionEnd(): a primary objective failed
CheckPrimaryFailed ==
    /\ missionPc = "checkFailed"
    /\ IF \E k \in DOMAIN m_objectives :
             m_objectives[k].primary /\ m_objectives[k].status = "Failed"
       THEN /\ End("Failure")
            /\ missionPc' = "idle"
       ELSE /\ missionPc' = "checkComplete"
            /\ UNCHANGED <<m_state, stateChanges>>
    /\ UNCHANGED <<m_elapsedTime, m_timeLimit, m_objectives, m_triggers, m_mechs>>
    /\ UNCHANGED missionKeeps

\* checkMissionEnd(): all primary objectives complete
CheckPrimaryComplete ==
    /\ missionPc = "checkComplete"
    /\ IF \A k \in DOMAIN m_objectives :
             m_objectives[k].primary => m_objectives[k].status = "Complete"
       THEN End("Success")
       ELSE UNCHANGED <<m_state, stateChanges>>
    /\ missionPc' = "checkTime"
    /\ UNCHANGED <<m_elapsedTime, m_timeLimit, m_objectives, m_triggers, m_mechs>>
    /\ UNCHANGED missionKeeps

\* checkMissionEnd(): the time limit, and the return of update
CheckTimeLimit ==
    /\ missionPc = "checkTime"
    /\ IF m_timeLimit > 0 /\ m_elapsedTime >= m_timeLimit
       THEN End("Failure")
       ELSE UNCHANGED <<m_state, stateChanges>>
    /\ missionPc' = "idle"
    /\ UNCHANGED <<m_elapsedTime, m_timeLimit, m_objectives, m_triggers, m_mechs>>
    /\ UNCHANGED missionKeeps

\* the objectives after completeObjective or failObjective has set the
\* status of the objective "obj_" + (k - 1), which it does only while that
\* objective is incomplete
ObjectivesWith(k, status) ==
    IF m_objectives[k].status = "Incomplete"
    THEN [m_objectives EXCEPT ![k].status = status]
    ELSE m_objectives

\* completeObjective(id)
CompleteObjective(k) ==
    /\ missionPc = "idle"
    /\ k \in DOMAIN m_objectives
    /\ m_objectives' = ObjectivesWith(k, "Complete")
    /\ UNCHANGED <<missionPc, m_state, stateChanges, m_elapsedTime, m_timeLimit, m_triggers,
                   m_mechs>>
    /\ UNCHANGED missionKeeps

\* failObjective(id)
FailObjective(k) ==
    /\ missionPc = "idle"
    /\ k \in DOMAIN m_objectives
    /\ m_objectives' = ObjectivesWith(k, "Failed")
    /\ UNCHANGED <<missionPc, m_state, stateChanges, m_elapsedTime, m_timeLimit, m_triggers,
                   m_mechs>>
    /\ UNCHANGED missionKeeps

\* combat destroys the k-th mech between two calls
MechDestroyed(k) ==
    /\ missionPc = "idle"
    /\ k \in DOMAIN m_mechs
    /\ ~m_mechs[k].destroyed
    /\ m_mechs' = [m_mechs EXCEPT ![k].destroyed = TRUE]
    /\ UNCHANGED <<missionPc, m_state, stateChanges, m_elapsedTime, m_timeLimit,
                   m_objectives, m_triggers>>
    /\ UNCHANGED missionKeeps

(***************************************************************************)
(* Specification of a mission: a new Mission is loaded from a file of up   *)
(* to MaxObjectives objectives, then started, updated, paused and resumed  *)
(* while combat destroys mechs and scripts settle objectives               *)
(***************************************************************************)
Objective(type, primary, timeLimit) ==
    [type |-> type, primary |-> primary, timeLimit |-> timeLimit, status |-> "Incomplete"]

ObjectiveKinds ==
    { Objective("Survive", TRUE, 1), Objective("DestroyAll", TRUE, 0),
      Objective("Reach", TRUE, 2), Objective("Custom", FALSE, 1) }

MissionObjectives == UNION {[1..n -> ObjectiveKinds] : n \in 0..MaxObjectives}

\* TimeLimit of MissionInfo: none, or two time units
MissionTimeLimits == {0, 2}

SpawnedMech(name, team) == [name |-> name, team |-> team, destroyed |-> FALSE]

MissionMechs ==
    { <<>>, <<SpawnedMech(0, 0)>>, <<SpawnedMech(0, 1)>>,
      <<SpawnedMech(0, 0), SpawnedMech(1, 1)>> }

Trigger(condition, targetId, delay) ==
    [condition |-> condition, targetId |-> targetId, delay |-> delay, fired |-> FALSE]

MissionTriggers ==
    { <<>>,
      <<Trigger("OnStart", 0, 0), Trigger("OnTime", 0, 2),
        Trigger("OnObjectiveComplete", 1, 0), Trigger("OnUnitDestroyed", 1, 0),
        Trigger("OnAreaEntered", 0, 0)>> }

\* deltaTime of update
DeltaTimes == {1, 2}

InitMission ==
    /\ LzIdle
    /\ StreamIdle
    /\ ShapeIdle
    /\ pc = "closed"

NextMission ==
    \/ \E ok \in BOOLEAN, limit \in MissionTimeLimits, objectives \in MissionObjectives,
          triggers \in MissionTriggers, mechs \in MissionMechs :
          LoadMission(ok, limit, objectives, triggers, mechs)
    \/ MissionStart
    \/ Len(stateChanges) < MaxStateChanges /\ MissionPause
    \/ MissionResume
    \/ \E deltaTime \in DeltaTimes : MissionUpdate(deltaTime)
    \/ CheckPlayersAlive
    \/ CheckPrimaryFailed
    \/ CheckPrimaryComplete
    \/ CheckTimeLimit
    \/ \E k \in 1..MaxObjectives : CompleteObjective(k)
    \/ \E k \in 1..MaxObjectives : FailObjective(k)
    \/ \E k \in 1..2 : MechDestroyed(k)

SpecMission == InitMission /\ [][NextMission]_vars

\* the outcome of the mission is decided
Decided == m_state \in MissionResults

\* C30: the mission outcome is decided at most once: once the state is
\* Success, Failure or Aborted, no later step of update, start, pause or
\* resume and no later check of the same update call changes the state or
\* calls the state-change callback again.
C30_OutcomeDecidedOnce ==
    [][Decided => (m_state' = m_state /\ stateChanges' = stateChanges)]_vars

\* C30 between calls: a decided mission is left alone by every call that
\* begins after the update that decided it has returned
C30_DecidedStaysBetweenCalls ==
    [][(Decided /\ missionPc = "idle")
       => (m_state' = m_state /\ stateChanges' = stateChanges)]_vars


====
